---------------------------- MODULE Spec2Model ----------------------------
(***************************************************************************)
(* A model of g9p, a 9P2000 client and server engine.                      *)
(*                                                                         *)
(* Spec       the client engine (Client.send, Read and Flush,              *)
(*            Client.Start) with a peer that answers the requests it has   *)
(*            read with frames of any type, on a transport that can fail.  *)
(* OpsSpec    one caller, all thirteen operations, a peer that sends any   *)
(*            frame at any time.                                           *)
(* WireSpec   Client.write and Server.handleResponse at the grain of the   *)
(*            single writes of protocol.Encode, with the server's request  *)
(*            loop and handler tasks.                                      *)
(* ProxySpec  a Server whose Handler is a Client: one handler task, every   *)
(*            request type, an upstream peer that answers with any frame.  *)
(* CodecSpec  protocol.Encode and the decoders of protocol.Decode,         *)
(*            Client.Start and Server.Start on the bytes of one frame.     *)
(* WalkSpec   the server of WireSpec reading Twalk requests of 16 and 17   *)
(*            names.                                                       *)
(* TagSpec    Client.NextTag, with its 16-bit counter.                     *)
(* WriteSpec  the loop of the write primitive with a writer that takes     *)
(*            part of what it is offered.                                  *)
(* LockSpec   the functions of Client at the map Client.queue, with the    *)
(*            lock each of them holds.                                     *)
(* ServeSpec  the server of WireSpec with one handler task, reading frames *)
(*            of every request type, every response type and unknown types.*)
(* RelaySpec  the proxy with two handler tasks: a Tread and the Tflush that  *)
(*            names it.                                                    *)
(* RaceSpec   Client.NextTag called by two goroutines at once, statement   *)
(*            by statement.                                                *)
(* StringSpec WriteString and ReadString on strings of up to MaxStr bytes  *)
(*            and of 65535 bytes and more.                                 *)
(* FlushSpec  the client of Spec with one request and two Flush calls that *)
(*            name its tag, a peer that answers only the last Tflush it    *)
(*            has read for a tag, and fair scheduling.                     *)
(***************************************************************************)
EXTENDS Integers, Sequences, FiniteSets, TLC

(***************************************************************************)
(* Bounds of the model.                                                    *)
(***************************************************************************)
NumCallers == 2
MaxTag == 1
MaxVal == 1
MaxWire == 1
MaxCalls == 3
MaxFrames == 2
NumWriters == 2
MaxWrites == 3
MaxLen == 2
NumFlushers == 3
NumRacers == 2
MaxRaceCalls == 3
MaxStr == 40

VARIABLE
  side       \* the configuration: the engine WireSpec follows, "client" or
             \* "server", or "flushes", the client of FlushSpec

\* The callers of the client and the tags they use: FlushSpec has the caller
\* of a request and the callers of the Flush calls that name its tag.
Callers == 1..(IF side = "flushes" THEN NumFlushers ELSE NumCallers)
Tags == 0..(IF side = "flushes" THEN NumFlushers - 1 ELSE MaxTag)
Vals == 0..MaxVal
Writers == 1..NumWriters
Sides == {"client", "server"}

(***************************************************************************)
(* Message type codes (protocol package constants).                        *)
(***************************************************************************)
Tversion == 100
Rversion == 101
Tauth == 102
Rauth == 103
Tattach == 104
Rattach == 105
Terror == 106
Rerror == 107
Tflush == 108
Rflush == 109
Twalk == 110
Rwalk == 111
Topen == 112
Ropen == 113
Tcreate == 114
Rcreate == 115
Tread == 116
Rread == 117
Twrite == 118
Rwrite == 119
Tclunk == 120
Rclunk == 121
Tremove == 122
Rremove == 123
Tstat == 124
Rstat == 125
Twstat == 126
Rwstat == 127
Tlast == 128

HeaderSize == 5

\* make(chan protocol.Message, 1)
ChanCap == 1

RequestTypes ==
  {Tversion, Tauth, Tattach, Tflush, Twalk, Topen, Tcreate, Tread, Twrite,
   Tclunk, Tremove, Tstat, Twstat}

ResponseTypes ==
  {Rversion, Rauth, Rattach, Rerror, Rflush, Rwalk, Ropen, Rcreate, Rread,
   Rwrite, Rclunk, Rremove, Rstat, Rwstat}

\* MessageType.IsRequest
IsRequest(mt) == mt % 2 = 0

ErrUnknownMessageType == "unknown message type"

\* protocol.MessageTypeToMessage: the empty variant allocated for a type code.
MessageTypeToMessage(mt) ==
  CASE mt = Tversion -> "VersionRequest"
    [] mt = Rversion -> "VersionResponse"
    [] mt = Tauth -> "AuthRequest"
    [] mt = Rauth -> "AuthResponse"
    [] mt = Tattach -> "AttachRequest"
    [] mt = Rattach -> "AttachResponse"
    [] mt = Tflush -> "FlushRequest"
    [] mt = Rflush -> "FlushResponse"
    [] mt = Twalk -> "WalkRequest"
    [] mt = Rwalk -> "WalkResponse"
    [] mt = Topen -> "OpenRequest"
    [] mt = Ropen -> "OpenResponse"
    [] mt = Tcreate -> "CreateRequest"
    [] mt = Rcreate -> "CreateResponse"
    [] mt = Tread -> "ReadRequest"
    [] mt = Rread -> "ReadResponse"
    [] mt = Twrite -> "WriteRequest"
    [] mt = Rwrite -> "WriteResponse"
    [] mt = Tclunk -> "ClunkRequest"
    [] mt = Rclunk -> "ClunkResponse"
    [] mt = Tremove -> "RemoveRequest"
    [] mt = Rremove -> "RemoveRequest"
    [] mt = Tstat -> "StatRequest"
    [] mt = Rstat -> "StatResponse"
    [] mt = Twstat -> "WriteStatRequest"
    [] mt = Rwstat -> "WriteStatResponse"
    [] mt = Rerror -> "ErrorResponse"
    [] OTHER -> ErrUnknownMessageType

\* protocol.MessageToMessageType: the type code written for a variant.
MessageToMessageType(variant) ==
  CASE variant = "VersionRequest" -> Tversion
    [] variant = "VersionResponse" -> Rversion
    [] variant = "AuthRequest" -> Tauth
    [] variant = "AuthResponse" -> Rauth
    [] variant = "AttachRequest" -> Tattach
    [] variant = "AttachResponse" -> Rattach
    [] variant = "ErrorResponse" -> Rerror
    [] variant = "FlushRequest" -> Tflush
    [] variant = "FlushResponse" -> Rflush
    [] variant = "WalkRequest" -> Twalk
    [] variant = "WalkResponse" -> Rwalk
    [] variant = "OpenRequest" -> Topen
    [] variant = "OpenResponse" -> Ropen
    [] variant = "CreateRequest" -> Tcreate
    [] variant = "CreateResponse" -> Rcreate
    [] variant = "ReadRequest" -> Tread
    [] variant = "ReadResponse" -> Rread
    [] variant = "WriteRequest" -> Twrite
    [] variant = "WriteResponse" -> Rwrite
    [] variant = "ClunkRequest" -> Tclunk
    [] variant = "ClunkResponse" -> Rclunk
    [] variant = "RemoveRequest" -> Tremove
    [] variant = "RemoveResponse" -> Rremove
    [] variant = "StatRequest" -> Tstat
    [] variant = "StatResponse" -> Rstat
    [] variant = "WriteStatRequest" -> Twstat
    [] variant = "WriteStatResponse" -> Rwstat
    [] OTHER -> Tlast


(***************************************************************************)
(* Messages.  A message is a variant, its tag, and val, which stands for   *)
(* the variable-length content of the variant (the bytes of a string or of *)
(* a data array, the number of qids): val is both that content's identity  *)
(* and its length.  A FlushRequest also carries OldTag.                    *)
(***************************************************************************)
Nil == [variant |-> "nil", tag |-> 0, val |-> 0]

Msg(variant, tag, val) == [variant |-> variant, tag |-> tag, val |-> val]

\* The variants whose encoding has a variable-length part.
VariableResponses ==
  {"VersionResponse", "ErrorResponse", "WalkResponse", "ReadResponse", "StatResponse"}

\* Stat.EncodedLength, with a name of n bytes and empty uid, gid and muid.
StatEncodedLength(n) == 2 + 2 + 4 + 13 + 4 + 4 + 4 + 8 + 8 + n

\* EncodedLength of each message variant; val is the length of the variant's
\* variable part (a name, version, error or data of val bytes, val qids, val
\* walk names of no bytes), its other strings being empty.
EncodedLength(variant, val) ==
  CASE variant = "VersionRequest" -> 2 + 4 + 2 + val
    [] variant = "VersionResponse" -> 2 + 4 + 2 + val
    [] variant = "AuthRequest" -> 2 + 4 + 2 + val + 2 + 0
    [] variant = "AuthResponse" -> 2 + 13
    [] variant = "AttachRequest" -> 2 + 4 + 4 + 2 + val + 2 + 0
    [] variant = "AttachResponse" -> 2 + 13
    [] variant = "ErrorResponse" -> 2 + 2 + val
    [] variant = "FlushRequest" -> 2 + 2
    [] variant = "FlushResponse" -> 2
    [] variant = "WalkRequest" -> 2 + 4 + 4 + 2 + 2 * val
    [] variant = "WalkResponse" -> 2 + 2 + 13 * val
    [] variant = "OpenRequest" -> 2 + 4 + 1
    [] variant = "OpenResponse" -> 2 + 13 + 4
    [] variant = "CreateRequest" -> 2 + 4 + 2 + val + 4 + 1
    [] variant = "CreateResponse" -> 2 + 13 + 4
    [] variant = "ReadRequest" -> 2 + 4 + 8 + 4
    [] variant = "ReadResponse" -> 2 + 4 + val
    [] variant = "WriteRequest" -> 2 + 4 + 8 + 4 + val
    [] variant = "WriteResponse" -> 2 + 4
    [] variant = "ClunkRequest" -> 2 + 4
    [] variant = "ClunkResponse" -> 2
    [] variant = "RemoveRequest" -> 2 + 4
    [] variant = "RemoveResponse" -> 2
    [] variant = "StatRequest" -> 2 + 4
    [] variant = "StatResponse" -> 2 + 2 + StatEncodedLength(val)
    [] variant = "WriteStatRequest" -> 2 + 4 + 2 + StatEncodedLength(val)
    [] variant = "WriteStatResponse" -> 2

\* The response variant each client operation asserts (resp.(*protocol.XResponse)).
ExpectedResponse(reqVariant) ==
  CASE reqVariant = "VersionRequest" -> "VersionResponse"
    [] reqVariant = "AuthRequest" -> "AuthResponse"
    [] reqVariant = "AttachRequest" -> "AttachResponse"
    [] reqVariant = "FlushRequest" -> "FlushResponse"
    [] reqVariant = "WalkRequest" -> "WalkResponse"
    [] reqVariant = "OpenRequest" -> "OpenResponse"
    [] reqVariant = "CreateRequest" -> "CreateResponse"
    [] reqVariant = "ReadRequest" -> "ReadResponse"
    [] reqVariant = "WriteRequest" -> "WriteResponse"
    [] reqVariant = "ClunkRequest" -> "ClunkResponse"
    [] reqVariant = "RemoveRequest" -> "RemoveResponse"
    [] reqVariant = "StatRequest" -> "StatResponse"
    [] reqVariant = "WriteStatRequest" -> "WriteStatResponse"

RequestVariants == {MessageTypeToMessage(mt) : mt \in RequestTypes}

(***************************************************************************)
(* Frames on the wire: size and type of the header, then the body, which   *)
(* is laid out as the variant that the type code names on the wire         *)
(* (123 is an Rremove body: a tag and nothing else).                       *)
(***************************************************************************)
Frame(size, mt, tag, val, oldtag) ==
  [size |-> size, mt |-> mt, tag |-> tag, val |-> val, oldtag |-> oldtag]

\* The variant whose layout the body of a frame of type mt has on the wire.
WireVariant(mt) ==
  IF mt = Rremove THEN "RemoveResponse" ELSE MessageTypeToMessage(mt)

\* protocol.Encode of a message: header with size = EncodedLength + HeaderSize.
Encode(d, oldtag) ==
  Frame(EncodedLength(d.variant, d.val) + HeaderSize,
        MessageToMessageType(d.variant), d.tag, d.val, oldtag)

ValsOf(variant, vals) == IF variant \in VariableResponses THEN vals ELSE {0}

\* Well-formed response frames of the given types, tags and contents.
GoodFrames(types, tags, vals) ==
  {Encode(Msg(WireVariant(x[1]), x[2], x[3]), 0) :
     x \in {y \in types \X tags \X vals : y[3] \in ValsOf(WireVariant(y[1]), vals)}}

\* A frame whose header advertises one byte less than its body needs.
ShortFrame(mt, tag) ==
  [Encode(Msg(WireVariant(mt), tag, 0), 0) EXCEPT !.size = @ - 1]

\* A frame whose type byte is no defined message type.
UnknownFrame(mt, tag) == Frame(HeaderSize + 2, mt, tag, 0, 0)

\* The operations and replies in play in Spec; OpsSpec has all of them.
CoreRequestTypes == {Tflush, Tread}
CoreResponseTypes == {Rerror, Rflush, Rread}

\* What the peer of Spec can send.
CoreFrames(tags) ==
  GoodFrames(CoreResponseTypes, tags, {0})
    \cup {ShortFrame(Rread, t) : t \in tags}
    \cup {UnknownFrame(Terror, t) : t \in tags}

(***************************************************************************)
(* The client engine: state.                                               *)
(***************************************************************************)
VARIABLES
  pc,        \* where each caller is in its client operation
  req,       \* the request each caller passed to its operation
  ch,        \* the channel getTag made for each caller's send
  queue,     \* Client.queue: tag -> the caller whose channel is registered
  wres,      \* what Client.write returned to send (send drops it)
  result,    \* what the operation returned to its caller
  c2s,       \* frames the client wrote that the peer has not read yet
  s2c,       \* frames the peer wrote that Client.Start has not read yet
  transport, \* "open", "failed" (EOF or I/O error) or "closed" (Close called)
  reader,    \* Client.Start: "running" or "stopped"
  startErr,  \* the error Client.Start returned
  srv,       \* the peer: tag -> type of the request it has read and not answered
  ncalls,    \* operations started so far
  nframes,   \* frames the peer has sent so far
  flt,       \* history: for a Flush in progress, the request its OldTag named
  reuse      \* history: the Flushes in progress at registration that named its
             \* tag for a request whose response had already been observed

cvars == <<pc, req, ch, queue, wres, result, c2s, s2c, transport, reader,
           startErr, srv, ncalls, nframes, flt, reuse>>

VARIABLES
  wpc,       \* where each writer is in its write
  wout,      \* the message each writer passes to protocol.Encode
  wpos,      \* how many writes of its frame a writer has made
  wlock,     \* writeLock: the writer that holds it, or NoSlot
  wire,      \* what has been written to the transport, write by write
  wdown,     \* whether the transport has failed
  task,      \* server: each handler task's request tag and handler return, and
             \* (history) the tasks whose handler was running at its dispatch
             \* and has not returned since
  server,    \* Server.Start: "running", "stopped", "panicking" or "exited"
  nwrites,   \* frames whose write was started so far
  srvMt,     \* Server.Start: mt, the type of the last header it read (0: none)
  srvErr     \* Server.Start: the error it returned ("none" while it runs)

wvars ==
  <<side, wpc, wout, wpos, wlock, wire, wdown, task, server, nwrites, srvMt, srvErr>>

VARIABLES
  kmsg,      \* codec: the message handed to protocol.Encode
  kwire,     \* codec: the bytes on the transport that a decoder is given
  kres       \* codec: what the decoder returned, and the body bytes it consumed

kvars == <<kmsg, kwire, kres>>

VARIABLES
  nextTag,   \* Client.nextTag: a protocol.Tag, 16 bits wide
  ntags,     \* NextTag calls made so far
  lastTag,   \* what the last NextTag call returned (-1 before the first)
  seenAt     \* per probed tag: the last call that returned it (0 = none yet)

tvars == <<nextTag, ntags, lastTag, seenAt>>

VARIABLES
  wbuf       \* write(w, b): the buffer b, the local written, the bytes the
             \* writer w was given so far (out), and where the call stands

bvars == <<wbuf>>

VARIABLES
  queueLock, \* Client.queueLock: the path holding it, or "free"
  lpc,       \* per path into Client.queue: "idle", "in" (at the map) or "out"
  ltag,      \* per path: the tag it was called with
  ltab,      \* the tags present in Client.queue
  lfatal     \* the runtime has stopped the process on a concurrent map access

lvars == <<queueLock, lpc, ltag, ltab, lfatal>>

VARIABLES
  rpc,       \* per concurrent caller of NextTag: the statement it is at
  rt,        \* per caller: its local t
  rreg,      \* per caller: the value it loaded for a c.nextTag++
  rcalls     \* concurrent NextTag calls started so far

rvars == <<rpc, rt, rreg, rcalls>>

uvars == <<tvars, bvars, lvars, rvars>>

vars == <<cvars, wvars, kvars, uvars>>

\* The tags whose returns are followed individually: the first and the last
\* of a round.
ProbeTags == {0, 65534}

\* The state of NextTag on a new client.
NewTags ==
  /\ nextTag = 0
  /\ ntags = 0
  /\ lastTag = 0 - 1
  /\ seenAt = [t \in ProbeTags |-> 0]

\* No call of write.
NoBuf == [st |-> "idle", b |-> << >>, written |-> 0, out |-> << >>]

\* The functions of Client that touch Client.queue.
Paths == {"getTag", "handleResponse", "flush", "write"}

NoSlot == 0

NoReq == [variant |-> "none", tag |-> 0, oldtag |-> 0]

Request(variant, tag, oldtag) == [variant |-> variant, tag |-> tag, oldtag |-> oldtag]

\* The requests a caller can pass: every tag, and for a Flush every OldTag.
Requests(types, tags) ==
  {Request(MessageTypeToMessage(x[1]), x[2], x[3]) :
     x \in {y \in types \X tags \X tags : y[1] # Tflush => y[3] = 0}}

NoResult == [resp |-> Nil, err |-> "none", estr |-> 0]

Result(resp, err, estr) == [resp |-> resp, err |-> err, estr |-> estr]

NoTarget == [who |-> NoSlot, st |-> "none"]

ErrTagInUse == "tag already in use"
ErrNoSuchTag == "tag does not exist"
ErrInvalidResponse == "invalid response"
ErrFlushed == "request flushed"
EOF == "EOF"

\* What a writer passes to protocol.Encode: a message, or a nil pointer of a
\* response type.
NoOut == [kind |-> "none", d |-> Nil]

Out(kind, d) == [kind |-> kind, d |-> d]

NoTask ==
  [tag |-> 0, variant |-> "none", val |-> 0, oldtag |-> 0, res |-> Nil,
   err |-> "none", after |-> {}]

\* No message at all: Server.handleResponse returns without writing.
NoMessage == [variant |-> "none", tag |-> 0, val |-> 0]

ErrHandler == "handler error"

\* A message of the codec: its variant and the values of its fields in the
\* order of the struct; NoK is none.
NoK == [variant |-> "none", f |-> << >>]

\* No decoder has run.
NoDecoded == [by |-> "none", err |-> "none", msg |-> NoK, used |-> 0]

InitEngines ==
  /\ pc = [c \in Callers |-> "idle"]
  /\ req = [c \in Callers |-> NoReq]
  /\ ch = [c \in Callers |-> << >>]
  /\ queue = [t \in Tags |-> NoSlot]
  /\ wres = [c \in Callers |-> "none"]
  /\ result = [c \in Callers |-> NoResult]
  /\ c2s = << >>
  /\ s2c = << >>
  /\ transport = "open"
  /\ reader = "running"
  /\ startErr = "none"
  /\ srv = [t \in Tags |-> 0]
  /\ ncalls = 0
  /\ nframes = 0
  /\ flt = [c \in Callers |-> NoTarget]
  /\ reuse = [c \in Callers |-> {}]
  /\ wpc = [i \in Writers |-> "idle"]
  /\ wout = [i \in Writers |-> NoOut]
  /\ wpos = [i \in Writers |-> 0]
  /\ wlock = NoSlot
  /\ wire = << >>
  /\ wdown = FALSE
  /\ task = [i \in Writers |-> NoTask]
  /\ server = "running"
  /\ nwrites = 0
  /\ srvMt = 0
  /\ srvErr = "none"
  /\ kwire = << >>
  /\ kres = NoDecoded
  /\ wbuf = NoBuf
  /\ queueLock = "free"
  /\ lpc = [p \in Paths |-> "idle"]
  /\ ltag = [p \in Paths |-> 0]
  /\ ltab = {}
  /\ lfatal = FALSE
  /\ rpc = [r \in 1..NumRacers |-> "idle"]
  /\ rt = [r \in 1..NumRacers |-> 0]
  /\ rreg = [r \in 1..NumRacers |-> 0]
  /\ rcalls = 0

InitRest == kmsg = NoK /\ NewTags /\ InitEngines

Init == side = "client" /\ InitRest

(***************************************************************************)
(* The client engine: the functions of Client, on the table and channels.  *)
(***************************************************************************)
\* getTag without the look-up: it registers the channel whatever the table
\* holds.
getTag_noCheck(q, t, c) ==
  [err |-> "nil", queue |-> [q EXCEPT ![t] = c]]

\* handleResponse without the delete: the entry stays in the table.
handleResponse_keep(q, chs, d) ==
  IF q[d.tag] # NoSlot
    THEN [err |-> "nil", queue |-> q,
          ch |-> [chs EXCEPT ![q[d.tag]] = Append(@, d)]]
    ELSE [err |-> ErrNoSuchTag, queue |-> q, ch |-> chs]

\* handleResponse sending nil in place of the message.
handleResponse_nil(q, chs, d) ==
  IF q[d.tag] # NoSlot
    THEN [err |-> "nil",
          queue |-> [q EXCEPT ![d.tag] = NoSlot],
          ch |-> [chs EXCEPT ![q[d.tag]] = Append(@, Nil)]]
    ELSE [err |-> ErrNoSuchTag, queue |-> q, ch |-> chs]

\* flush without the send: the entry is deleted and no one is woken.
flush_noWake(q, chs, t) ==
  [queue |-> [q EXCEPT ![t] = NoSlot], ch |-> chs]

\* Client.getTag: under queueLock, refuse a tag that is registered, else
\* register a new channel (the caller's) under it.
getTag(q, t, c) ==
  IF q[t] # NoSlot
    THEN [err |-> ErrTagInUse, queue |-> q]
    ELSE [err |-> "nil", queue |-> [q EXCEPT ![t] = c]]

\* Client.handleResponse: under queueLock, send d on the channel registered
\* under d's tag and delete the entry.
handleResponse(q, chs, d) ==
  IF q[d.tag] # NoSlot
    THEN [err |-> "nil",
          queue |-> [q EXCEPT ![d.tag] = NoSlot],
          ch |-> [chs EXCEPT ![q[d.tag]] = Append(@, d)]]
    ELSE [err |-> ErrNoSuchTag, queue |-> q, ch |-> chs]

\* flush without the delete: nil is sent and the entry stays in the table.
flush_keep(q, chs, t) ==
  IF q[t] # NoSlot
    THEN [queue |-> q, ch |-> [chs EXCEPT ![q[t]] = Append(@, Nil)]]
    ELSE [queue |-> q, ch |-> chs]

\* Client.flush: under queueLock, send nil on the channel registered under t
\* and delete the entry.
flush(q, chs, t) ==
  IF q[t] # NoSlot
    THEN [queue |-> [q EXCEPT ![t] = NoSlot],
          ch |-> [chs EXCEPT ![q[t]] = Append(@, Nil)]]
    ELSE [queue |-> q, ch |-> chs]

\* Client.write: with the transport working the frame is written and nil
\* returned; when Encode fails the entry under t is deleted and the error
\* returned.
write(q, rw, t, d, oldtag, ok) ==
  IF ok
    THEN [err |-> "nil", queue |-> q, wire |-> Append(rw, Encode(d, oldtag))]
    ELSE [err |-> EOF, queue |-> [q EXCEPT ![t] = NoSlot], wire |-> rw]

\* send without the test for an ErrorResponse: it is returned as a response.
sendReturn_noError(m) ==
  IF m = Nil THEN Result(Nil, ErrFlushed, 0) ELSE Result(m, "nil", 0)

\* Client.send after the receive from the channel: nil is ErrFlushed, an
\* ErrorResponse is an error carrying its string, anything else is returned.
sendReturn(m) ==
  IF m = Nil
    THEN Result(Nil, ErrFlushed, 0)
    ELSE IF m.variant = "ErrorResponse"
           THEN Result(Nil, "remote", m.val)
           ELSE Result(m, "nil", 0)

\* An operation without the type assertion: what send returned is returned.
opReturn_noAssert(reqVariant, sr) == sr

\* Client.Version ... Client.WriteStat after send: the type assertion.
opReturn(reqVariant, sr) ==
  IF sr.err # "nil"
    THEN sr
    ELSE IF sr.resp.variant = ExpectedResponse(reqVariant)
           THEN Result(sr.resp, "nil", 0)
           ELSE Result(Nil, ErrInvalidResponse, 0)

\* XResponse.Decode / RemoveRequest.Decode through the io.LimitedReader of
\* size - HeaderSize bytes: the reads of the variant's fields succeed when the
\* limiter holds the bytes they need.
decodeBody(variant, f) ==
  IF EncodedLength(variant, f.val) <= f.size - HeaderSize
    THEN [err |-> "nil", msg |-> Msg(variant, f.tag, f.val)]
    ELSE [err |-> EOF, msg |-> Nil]

\* A Flush whose Tflush is registered and that has not returned.
FlushInProgress(c) ==
  /\ pc[c] \in {"write", "wait", "flush"}
  /\ req[c].variant = "FlushRequest"

(***************************************************************************)
(* The client engine: the callers.                                         *)
(***************************************************************************)
\* A caller enters an operation with request r: send's getTag.
Call(c, requests) ==
  /\ pc[c] = "idle"
  /\ ncalls < MaxCalls
  /\ \E r \in requests :
       LET g == getTag(queue, r.tag, c) IN
         /\ queue' = g.queue
         /\ IF g.err # "nil"
              THEN /\ pc' = [pc EXCEPT ![c] = "done"]
                   /\ result' = [result EXCEPT ![c] = Result(Nil, g.err, 0)]
                   /\ req' = [req EXCEPT ![c] = r]
                   /\ UNCHANGED <<ch, flt, reuse>>
              ELSE /\ pc' = [pc EXCEPT ![c] = "write"]
                   /\ req' = [req EXCEPT ![c] = r]
                   /\ ch' = [ch EXCEPT ![c] = << >>]
                   /\ flt' = [flt EXCEPT ![c] =
                                IF r.variant = "FlushRequest" /\ queue[r.oldtag] # NoSlot
                                  THEN [who |-> queue[r.oldtag], st |-> "live"]
                                  ELSE NoTarget]
                   /\ reuse' = [reuse EXCEPT ![c] =
                                  {f \in Callers \ {c} :
                                     /\ FlushInProgress(f)
                                     /\ req[f].oldtag = r.tag
                                     /\ flt[f].st = "answered"}]
                   /\ UNCHANGED result
  /\ ncalls' = ncalls + 1
  /\ UNCHANGED <<wres, c2s, s2c, transport, reader, startErr, srv, nframes>>
  /\ UNCHANGED <<wvars, kvars, uvars>>

\* send's c.write(t, d): the frame is written whole under writeLock.
Write(c) ==
  /\ pc[c] = "write"
  /\ transport = "open" => Len(c2s) < MaxWire
  /\ LET w == write(queue, c2s, req[c].tag,
                    Msg(req[c].variant, req[c].tag, 0), req[c].oldtag,
                    transport = "open") IN
       /\ queue' = w.queue
       /\ c2s' = w.wire
       /\ wres' = [wres EXCEPT ![c] = w.err]
  /\ pc' = [pc EXCEPT ![c] = "wait"]
  /\ UNCHANGED <<req, ch, result, s2c, transport, reader, startErr, srv, ncalls,
                 nframes, flt, reuse>>
  /\ UNCHANGED <<wvars, kvars, uvars>>

\* The request of caller c ended with what it received: history only.
Settle(c, how) ==
  [f \in Callers |->
     IF f = c THEN flt[f]
     ELSE IF flt[f].who = c /\ flt[f].st = "live"
            THEN [who |-> NoSlot, st |-> how]
            ELSE flt[f]]

\* send's resp := <-ch and the operation's return; Flush goes on to c.flush.
Recv(c) ==
  /\ pc[c] = "wait"
  /\ ch[c] # << >>
  /\ LET m == Head(ch[c])
         r == opReturn(req[c].variant, sendReturn(m)) IN
       /\ ch' = [ch EXCEPT ![c] = Tail(@)]
       /\ flt' = Settle(c, IF m = Nil THEN "flushed" ELSE "answered")
       /\ IF req[c].variant = "FlushRequest" /\ r.err = "nil"
            THEN /\ pc' = [pc EXCEPT ![c] = "flush"]
                 /\ result' = [result EXCEPT ![c] = r]
            ELSE /\ pc' = [pc EXCEPT ![c] = "done"]
                 /\ result' = [result EXCEPT ![c] = r]
  /\ UNCHANGED <<req, queue, wres, c2s, s2c, transport, reader, startErr, srv,
                 ncalls, nframes, reuse>>
  /\ UNCHANGED <<wvars, kvars, uvars>>

\* Client.Flush after the FlushResponse: c.flush(t), return resp, nil.
FlushOld(c) ==
  /\ pc[c] = "flush"
  /\ queue[req[c].oldtag] # NoSlot => Len(ch[queue[req[c].oldtag]]) < ChanCap
  /\ LET fl == flush(queue, ch, req[c].oldtag) IN
       /\ queue' = fl.queue
       /\ ch' = fl.ch
  /\ pc' = [pc EXCEPT ![c] = "done"]
  /\ UNCHANGED <<req, wres, result, c2s, s2c, transport, reader, startErr, srv,
                 ncalls, nframes, flt, reuse>>
  /\ UNCHANGED <<wvars, kvars, uvars>>

\* The caller has its result and is free to start another operation.
Return(c) ==
  /\ pc[c] = "done"
  /\ pc' = [pc EXCEPT ![c] = "idle"]
  /\ req' = [req EXCEPT ![c] = NoReq]
  /\ wres' = [wres EXCEPT ![c] = "none"]
  /\ result' = [result EXCEPT ![c] = NoResult]
  /\ flt' = [flt EXCEPT ![c] = NoTarget]
  /\ reuse' = [reuse EXCEPT ![c] = {}]
  /\ UNCHANGED <<ch, queue, c2s, s2c, transport, reader, startErr, srv, ncalls,
                 nframes>>
  /\ UNCHANGED <<wvars, kvars, uvars>>

(***************************************************************************)
(* The client engine: Client.Start.                                        *)
(***************************************************************************)
\* A Start without the deferred Close.
startReturn_open(err) ==
  /\ reader' = "stopped"
  /\ startErr' = err
  /\ UNCHANGED <<transport, s2c>>

\* Start returns err; the deferred function closes the transport.
startReturn(err) ==
  /\ reader' = "stopped"
  /\ startErr' = err
  /\ transport' = "closed"
  /\ s2c' = << >>

\* One turn of Start's loop on a frame: DecodeHdr, MessageTypeToMessage,
\* Decode through the limiter, handleResponse.
ReadFrame ==
  /\ reader = "running"
  /\ s2c # << >>
  /\ LET f == Head(s2c)
         variant == MessageTypeToMessage(f.mt)
         dec == decodeBody(variant, f)
         h == handleResponse(queue, ch, dec.msg) IN
       IF variant = ErrUnknownMessageType
         THEN startReturn(ErrUnknownMessageType) /\ UNCHANGED <<queue, ch>>
         ELSE IF dec.err # "nil"
                THEN startReturn(dec.err) /\ UNCHANGED <<queue, ch>>
                ELSE /\ queue[dec.msg.tag] # NoSlot =>
                          Len(ch[queue[dec.msg.tag]]) < ChanCap
                     /\ queue' = h.queue
                     /\ ch' = h.ch
                     /\ s2c' = Tail(s2c)
                     /\ UNCHANGED <<reader, startErr, transport>>
  /\ UNCHANGED <<pc, req, wres, result, c2s, srv, ncalls, nframes, flt, reuse>>
  /\ UNCHANGED <<wvars, kvars, uvars>>

\* DecodeHdr fails: the transport has failed and holds no more bytes.
ReadFail ==
  /\ reader = "running"
  /\ s2c = << >>
  /\ transport # "open"
  /\ startReturn(EOF)
  /\ UNCHANGED <<pc, req, ch, queue, wres, result, c2s, srv, ncalls, nframes,
                 flt, reuse>>
  /\ UNCHANGED <<wvars, kvars, uvars>>

(***************************************************************************)
(* The peer and the transport.                                             *)
(***************************************************************************)
\* The peer writes any frame at all, asked or not.
PeerSend(frames) ==
  /\ transport = "open"
  /\ Len(s2c) < MaxWire
  /\ nframes < MaxFrames
  /\ \E f \in frames : s2c' = Append(s2c, f)
  /\ nframes' = nframes + 1
  /\ UNCHANGED <<pc, req, ch, queue, wres, result, c2s, transport, reader,
                 startErr, srv, ncalls, flt, reuse>>
  /\ UNCHANGED <<wvars, kvars, uvars>>

\* The peer answers a request it has read and not answered, once, with a
\* frame of any type and content that carries the request's tag.
PeerReply(frames) ==
  /\ transport = "open"
  /\ Len(s2c) < MaxWire
  /\ \E f \in frames :
       /\ srv[f.tag] # 0
       /\ s2c' = Append(s2c, f)
       /\ srv' = [srv EXCEPT ![f.tag] = 0]
  /\ UNCHANGED <<pc, req, ch, queue, wres, result, c2s, transport, reader,
                 startErr, ncalls, nframes, flt, reuse>>
  /\ UNCHANGED <<wvars, kvars, uvars>>

\* The peer reads a request; reading a Tflush it abandons the request the
\* Tflush names.
PeerRecv ==
  /\ c2s # << >>
  /\ c2s' = Tail(c2s)
  /\ LET f == Head(c2s) IN
       srv' = [t \in Tags |->
                 IF t = f.tag THEN f.mt
                 ELSE IF f.mt = Tflush /\ t = f.oldtag THEN 0
                 ELSE srv[t]]
  /\ UNCHANGED <<pc, req, ch, queue, wres, result, s2c, transport, reader,
                 startErr, ncalls, nframes, flt, reuse>>
  /\ UNCHANGED <<wvars, kvars, uvars>>

TransportFail ==
  /\ transport = "open"
  /\ transport' = "failed"
  /\ UNCHANGED <<pc, req, ch, queue, wres, result, c2s, s2c, reader,
                 startErr, srv, ncalls, nframes, flt, reuse>>
  /\ UNCHANGED <<wvars, kvars, uvars>>

Next ==
  \/ \E c \in Callers : Call(c, Requests(CoreRequestTypes, Tags))
  \/ \E c \in Callers : Write(c)
  \/ \E c \in Callers : Recv(c)
  \/ \E c \in Callers : FlushOld(c)
  \/ \E c \in Callers : Return(c)
  \/ ReadFrame
  \/ ReadFail
  \/ PeerReply(CoreFrames(Tags))
  \/ PeerRecv
  \/ TransportFail

Spec == Init /\ [][Next]_vars

(***************************************************************************)
(* OpsSpec: one caller, every operation, every reply type and content.     *)
(***************************************************************************)
AllFrames ==
  GoodFrames(ResponseTypes, {0}, Vals)
    \cup {ShortFrame(mt, 0) : mt \in ResponseTypes}
    \cup {UnknownFrame(mt, 0) : mt \in {Terror, Tlast}}

NextOps ==
  \/ \E c \in {1} : Call(c, Requests(RequestTypes, {0}))
  \/ \E c \in {1} : Write(c)
  \/ \E c \in {1} : Recv(c)
  \/ \E c \in {1} : FlushOld(c)
  \/ \E c \in {1} : Return(c)
  \/ ReadFrame
  \/ ReadFail
  \/ PeerSend(AllFrames)
  \/ PeerRecv
  \/ TransportFail

OpsSpec == Init /\ [][NextOps]_vars

(***************************************************************************)
(* FlushSpec: overlapping Flush calls on one tag.                          *)
(***************************************************************************)
\* Caller 1 sends a Tread with tag 0; every other caller c calls Flush with
\* the tag c - 1 of its own and OldTag 0.
FlushRequests(c) ==
  IF c = 1 THEN {Request("ReadRequest", 0, 0)}
  ELSE {Request("FlushRequest", c - 1, 0)}

\* The peer reads a request. Reading a Tflush it abandons the request the
\* Tflush names and, answering only the last Tflush for a tag, the Tflush it
\* had read before and not answered (every Tflush of FlushSpec names tag 0).
PeerRecvLast ==
  /\ c2s # << >>
  /\ c2s' = Tail(c2s)
  /\ LET f == Head(c2s) IN
       srv' = [t \in Tags |->
                 IF t = f.tag THEN f.mt
                 ELSE IF f.mt = Tflush /\ (t = f.oldtag \/ srv[t] = Tflush) THEN 0
                 ELSE srv[t]]
  /\ UNCHANGED <<pc, req, ch, queue, wres, result, s2c, transport, reader,
                 startErr, ncalls, nframes, flt, reuse>>
  /\ UNCHANGED <<wvars, kvars, uvars>>

\* What a caller does once it is inside an operation.
CallerStep(c) == Write(c) \/ Recv(c) \/ FlushOld(c) \/ Return(c)

NextFlush ==
  \/ \E c \in Callers : Call(c, FlushRequests(c))
  \/ \E c \in Callers : Write(c)
  \/ \E c \in Callers : Recv(c)
  \/ \E c \in Callers : FlushOld(c)
  \/ \E c \in Callers : Return(c)
  \/ ReadFrame
  \/ PeerReply(GoodFrames(CoreResponseTypes, Tags, {0}))
  \/ PeerRecvLast

InitFlush == side = "flushes" /\ InitRest

\* Fairness: a goroutine that can run does run (the callers inside an
\* operation and Client.Start), and the peer reads what was written to it
\* and answers what it has not abandoned.
FlushSpec ==
  /\ InitFlush
  /\ [][NextFlush]_vars
  /\ \A c \in 1..NumFlushers : WF_vars(CallerStep(c))
  /\ WF_vars(ReadFrame)
  /\ WF_vars(PeerReply(GoodFrames(CoreResponseTypes, Tags, {0})))
  /\ WF_vars(PeerRecvLast)

(***************************************************************************)
(* WireSpec: the two write paths, write by write.                          *)
(***************************************************************************)
\* writeLock.Lock() returns when no one holds the lock.
canLock_always(l) == TRUE

canLock(l) == l = NoSlot

\* protocol.Encode, as the writes it makes on the transport: WriteUint32 of
\* the size, WriteMessageType, and d.Encode's WriteTag and then its writes of
\* the other fields, if the variant has any.
EncodeWrites(d) ==
  << [part |-> "size", v |-> EncodedLength(d.variant, d.val) + HeaderSize],
     [part |-> "type", v |-> MessageToMessageType(d.variant)],
     [part |-> "tag", v |-> d.tag] >>
  \o (IF EncodedLength(d.variant, d.val) > 2
        THEN << [part |-> "body", v |-> d.val] >>
        ELSE << >>)

\* protocol.Encode of a nil pointer of a response type: EncodedLength
\* dereferences it when the variant has a variable part, and then nothing is
\* written; otherwise the header is written and d.Encode dereferences it.
EncodeWritesNil(variant) ==
  IF variant \in VariableResponses
    THEN << >>
    ELSE << [part |-> "size", v |-> EncodedLength(variant, 0) + HeaderSize],
            [part |-> "type", v |-> MessageToMessageType(variant)] >>

\* A switch whose default case takes the type for a Tclunk.
serverSwitch_default(mt) ==
  IF mt \in RequestTypes THEN MessageTypeToMessage(mt) ELSE "ClunkRequest"

\* The switch of Server.Start on the message type.
serverSwitch(mt) ==
  IF mt \in RequestTypes THEN MessageTypeToMessage(mt) ELSE ErrUnknownMessageType

\* errors.New(s) in Client.send: an error of its own whose message is the
\* string s of the ErrorResponse (s is the number that stands for the string).
errorsNew(s) == ToString(s)

\* e.Error(): the message of a handler's error, as the number that stands
\* for the string in an ErrorResponse of the model.
ErrorString(e) ==
  IF e = ErrHandler THEN 1
  ELSE IF \E s \in Vals : e = errorsNew(s)
         THEN CHOOSE s \in Vals : e = errorsNew(s)
         ELSE 0

\* The handler task without the assignment of the tag.
reply_keepTag(tag, variant, res, err) ==
  IF err = ErrFlushed THEN NoMessage
  ELSE IF err # "nil" THEN Msg("ErrorResponse", tag, ErrorString(err))
  ELSE res

\* handleResponse looking at the response first: an error replaces only a
\* nil response.
reply_preferRes(tag, variant, res, err) ==
  IF err = ErrFlushed THEN NoMessage
  ELSE IF res # Nil THEN [res EXCEPT !.tag = tag]
  ELSE IF err # "nil" THEN Msg("ErrorResponse", tag, ErrorString(err))
  ELSE res

\* handleResponse writing an Rerror for the flushed sentinel as for any
\* other error.
reply_noSentinel(tag, variant, res, err) ==
  IF err # "nil" THEN Msg("ErrorResponse", tag, ErrorString(err))
  ELSE IF res # Nil THEN [res EXCEPT !.tag = tag]
  ELSE res

\* The handler task after the handler returned (res, err), and
\* Server.handleResponse up to the lock: res.Tag = tag when res is not nil;
\* nothing is written for ErrFlushed; another error replaces the response by
\* an ErrorResponse with the request's tag.
reply(tag, variant, res, err) ==
  IF err = ErrFlushed THEN NoMessage
  ELSE IF err # "nil" THEN Msg("ErrorResponse", tag, ErrorString(err))
  ELSE IF res # Nil THEN [res EXCEPT !.tag = tag]
  ELSE res

\* Server.Start calls the handler in the loop itself: the next request is
\* read when the handler has returned and the reply is written.
canDispatch_serial(wpcs, i) == \A j \in DOMAIN wpcs : wpcs[j] = "idle"

\* The go statement of Server.Start: each request gets a goroutine of its
\* own, whatever the earlier ones are doing (i is a goroutine not in use).
canDispatch(wpcs, i) == wpcs[i] = "idle"

\* The requests the server reads in WireSpec, and two frames it rejects.
ServerFrames ==
  {Encode(Msg(MessageTypeToMessage(mt), t, 0), 0) : mt \in {Tread, Tclunk}, t \in Tags}
    \cup {ShortFrame(Tread, 0), UnknownFrame(Rread, 0)}

\* What the handler can return for a request: nil or a response of the
\* operation's type with any tag in it, and nil, ErrFlushed or another error.
HandlerReturns(variant) ==
  ({Nil} \cup {Msg(variant, t, 0) : t \in Tags}) \X {"nil", ErrFlushed, ErrHandler}

\* A client caller enters Client.write with its request.
WCall(i) ==
  /\ side = "client"
  /\ wpc[i] = "idle"
  /\ nwrites < MaxWrites
  /\ \E t \in Tags :
       wout' = [wout EXCEPT ![i] = Out("msg", Msg("ReadRequest", t, 0))]
  /\ wpc' = [wpc EXCEPT ![i] = "lock"]
  /\ nwrites' = nwrites + 1
  /\ UNCHANGED <<side, wpos, wlock, wire, wdown, task, server, srvMt, srvErr>>
  /\ UNCHANGED <<cvars, kvars, uvars>>

\* One turn of Server.Start's loop: DecodeHdr, the switch, Decode through the
\* limiter, and the go statement that starts the handler task; when Start
\* returns, Serve closes the transport.
SrvRead(i, frames) ==
  /\ side = "server"
  /\ server = "running"
  /\ canDispatch(wpc, i)
  /\ nwrites < MaxWrites
  /\ \E f \in frames :
       LET variant == serverSwitch(f.mt) IN
         IF variant = ErrUnknownMessageType \/ decodeBody(variant, f).err # "nil"
           THEN /\ server' = "stopped"
                /\ srvErr' = IF variant = ErrUnknownMessageType
                               THEN ErrUnknownMessageType
                               ELSE decodeBody(variant, f).err
                /\ srvMt' = f.mt
                /\ wdown' = TRUE
                /\ UNCHANGED <<wpc, task, nwrites>>
           ELSE /\ task' = [task EXCEPT ![i] =
                              [tag |-> f.tag, variant |-> ExpectedResponse(variant),
                               val |-> f.val, oldtag |-> f.oldtag,
                               res |-> Nil, err |-> "none",
                               after |-> {j \in Writers : wpc[j] = "handler"}]]
                /\ wpc' = [wpc EXCEPT ![i] = "handler"]
                /\ nwrites' = nwrites + 1
                /\ srvMt' = f.mt
                /\ UNCHANGED <<server, wdown, srvErr>>
  /\ UNCHANGED <<side, wout, wpos, wlock, wire>>
  /\ UNCHANGED <<cvars, kvars, uvars>>

\* The handler of task i returns h = (res, err), and the task enters
\* Server.handleResponse.
handlerReturn(i, h) ==
  /\ server # "exited"
  /\ wpc[i] = "handler"
  /\ LET d == reply(task[i].tag, task[i].variant, h[1], h[2]) IN
       /\ task' = [j \in Writers |->
                     IF j = i THEN [task[i] EXCEPT !.res = h[1], !.err = h[2]]
                              ELSE [task[j] EXCEPT !.after = @ \ {i}]]
       /\ IF d = NoMessage
            THEN /\ wpc' = [wpc EXCEPT ![i] = "done"]
                 /\ UNCHANGED wout
            ELSE /\ wpc' = [wpc EXCEPT ![i] = "lock"]
                 /\ wout' = [wout EXCEPT ![i] =
                               IF d = Nil
                                 THEN Out("nilptr", Msg(task[i].variant, 0, 0))
                                 ELSE Out("msg", d)]
  /\ UNCHANGED <<side, wpos, wlock, wire, wdown, server, nwrites, srvMt, srvErr>>

\* The handler returns any of the values a handler can return.
Handle(i) ==
  /\ \E h \in HandlerReturns(task[i].variant) : handlerReturn(i, h)
  /\ UNCHANGED <<cvars, kvars, uvars>>

\* writeLock.Lock() in Client.write and in Server.handleResponse.
WLock(i) ==
  /\ server # "exited"
  /\ wpc[i] = "lock"
  /\ canLock(wlock)
  /\ wlock' = i
  /\ wpc' = [wpc EXCEPT ![i] = "enc"]
  /\ wpos' = [wpos EXCEPT ![i] = 0]
  /\ UNCHANGED <<side, wout, wire, wdown, task, server, nwrites, srvMt, srvErr>>
  /\ UNCHANGED <<cvars, kvars, uvars>>

\* The next write of protocol.Encode under the lock. A nil pointer panics
\* where it is dereferenced; a failed transport makes the write return an
\* error; after the last write, and on every way out, the deferred Unlock
\* runs.
WStep(i) ==
  /\ server # "exited"
  /\ wpc[i] = "enc"
  /\ LET out == wout[i]
         ws == IF out.kind = "nilptr" THEN EncodeWritesNil(out.d.variant)
                                      ELSE EncodeWrites(out.d) IN
       IF out.kind = "nilptr" /\ wpos[i] = Len(ws)
         THEN /\ server' = "panicking"
              /\ wlock' = NoSlot
              /\ wpc' = [wpc EXCEPT ![i] = "done"]
              /\ UNCHANGED <<wire, wpos>>
         ELSE IF wdown
           THEN /\ wlock' = NoSlot
                /\ wpc' = [wpc EXCEPT ![i] = "done"]
                /\ UNCHANGED <<wire, wpos, server>>
           ELSE /\ wire' = Append(wire, [w |-> i,
                                         part |-> ws[wpos[i] + 1].part,
                                         v |-> ws[wpos[i] + 1].v,
                                         rtag |-> IF side = "server" THEN task[i].tag
                                                                     ELSE out.d.tag])
                /\ wpos' = [wpos EXCEPT ![i] = @ + 1]
                /\ IF out.kind = "msg" /\ wpos[i] + 1 = Len(ws)
                     THEN /\ wlock' = NoSlot
                          /\ wpc' = [wpc EXCEPT ![i] = "done"]
                     ELSE UNCHANGED <<wlock, wpc>>
                /\ UNCHANGED server
  /\ UNCHANGED <<side, wout, wdown, task, nwrites, srvMt, srvErr>>
  /\ UNCHANGED <<cvars, kvars, uvars>>

\* Client.write has returned to send; the handler task has ended.
WDone(i) ==
  /\ server # "exited"
  /\ wpc[i] = "done"
  /\ wpc' = [wpc EXCEPT ![i] = "idle"]
  /\ wout' = [wout EXCEPT ![i] = NoOut]
  /\ wpos' = [wpos EXCEPT ![i] = 0]
  /\ task' = [task EXCEPT ![i] = NoTask]
  /\ UNCHANGED <<side, wlock, wire, wdown, server, nwrites, srvMt, srvErr>>
  /\ UNCHANGED <<cvars, kvars, uvars>>

\* The panic of a handler task ends the server's process.
ProcessExit ==
  /\ server = "panicking"
  /\ server' = "exited"
  /\ UNCHANGED <<side, wpc, wout, wpos, wlock, wire, wdown, task, nwrites, srvMt, srvErr>>
  /\ UNCHANGED <<cvars, kvars, uvars>>

\* The transport fails: writes on it return an error from now on.
WFail ==
  /\ ~wdown
  /\ wdown' = TRUE
  /\ UNCHANGED <<side, wpc, wout, wpos, wlock, wire, task, server, nwrites, srvMt, srvErr>>
  /\ UNCHANGED <<cvars, kvars, uvars>>

NextWire ==
  \/ \E i \in Writers : WCall(i)
  \/ \E i \in Writers : SrvRead(i, ServerFrames)
  \/ \E i \in Writers : Handle(i)
  \/ \E i \in Writers : WLock(i)
  \/ \E i \in Writers : WStep(i)
  \/ \E i \in Writers : WDone(i)
  \/ ProcessExit
  \/ WFail

\* WireSpec follows the client's write path or the server's.
InitWire == side \in Sides /\ InitRest

WireSpec == InitWire /\ [][NextWire]_vars

(***************************************************************************)
(* WalkSpec: the server reading Twalk requests with as many names as the   *)
(* Handler interface allows, and with one more.                            *)
(***************************************************************************)
\* Handler.Walk: "The list of names must not exceed 16 names."
MaxWalkNames == 16

\* Twalk frames with MaxWalkNames and MaxWalkNames + 1 empty names.
WalkFrames ==
  {Encode(Msg("WalkRequest", t, n), 0) :
     t \in Tags, n \in {MaxWalkNames, MaxWalkNames + 1}}

NextWalk ==
  \/ \E i \in Writers : SrvRead(i, WalkFrames)
  \/ \E i \in Writers : Handle(i)
  \/ \E i \in Writers : WLock(i)
  \/ \E i \in Writers : WStep(i)
  \/ \E i \in Writers : WDone(i)
  \/ ProcessExit
  \/ WFail

InitWalk == side = "server" /\ InitRest

WalkSpec == InitWalk /\ [][NextWalk]_vars

(***************************************************************************)
(* ProxySpec: a Server whose Handler is a Client connected to an upstream  *)
(* server.  Handler task i calls the client operation as caller i; the     *)
(* downstream transport is wire, the upstream one c2s and s2c.             *)
(***************************************************************************)
\* The requests the downstream client sends.
ProxyFrames ==
  {Encode(Msg(MessageTypeToMessage(mt), 0, 0), 0) : mt \in RequestTypes}

\* The error a client operation hands to the handler task.
handlerError(r) == IF r.err = "remote" THEN errorsNew(r.estr) ELSE r.err

\* The handler task calls s.Handler.X(r): the client operation of the
\* request's type, with the request it decoded.
PxCall(i) ==
  /\ side = "server"
  /\ wpc[i] = "handler"
  /\ Call(i, {r \in Requests(RequestTypes, Tags) :
                /\ r.tag = task[i].tag
                /\ r.oldtag = task[i].oldtag
                /\ ExpectedResponse(r.variant) = task[i].variant})

\* The client operation has returned to the handler task.
PxHandle(i) ==
  /\ pc[i] = "done"
  /\ handlerReturn(i, <<result[i].resp, handlerError(result[i])>>)
  /\ UNCHANGED <<cvars, kvars, uvars>>

\* The handler task is past the handler call: the caller's slot is free.
PxReturn(i) ==
  /\ wpc[i] # "handler"
  /\ Return(i)

NextProxy ==
  \/ \E i \in {1} : SrvRead(i, ProxyFrames)
  \/ \E i \in {1} : PxCall(i)
  \/ \E i \in {1} : Write(i)
  \/ \E i \in {1} : Recv(i)
  \/ \E i \in {1} : FlushOld(i)
  \/ \E i \in {1} : PxHandle(i)
  \/ \E i \in {1} : PxReturn(i)
  \/ \E i \in {1} : WLock(i)
  \/ \E i \in {1} : WStep(i)
  \/ \E i \in {1} : WDone(i)
  \/ ReadFrame
  \/ PeerReply(AllFrames)
  \/ PeerRecv

InitProxy == side = "server" /\ InitRest

ProxySpec == InitProxy /\ [][NextProxy]_vars

(***************************************************************************)
(* RelaySpec: the proxy of ProxySpec with two handler tasks.  The          *)
(* downstream client sends a Tread with tag 0 and, while the Read that     *)
(* serves it is blocked upstream, a Tflush with tag 1 that names tag 0.    *)
(* The tasks are followed to their end and not used again.                 *)
(***************************************************************************)
\* The handler task d is inside Client.Read, which has written its Tread
\* and waits in send for the answer.
BlockedUpstream(d) ==
  /\ wpc[d] = "handler"
  /\ pc[d] = "wait"
  /\ req[d].variant = "ReadRequest"
  /\ queue[req[d].tag] = d

\* What the server reads next from the downstream client.
RelayFrames ==
  IF \A i \in Writers : task[i] = NoTask
    THEN {Encode(Msg("ReadRequest", 0, 0), 0)}
    ELSE IF /\ \E d \in Writers : BlockedUpstream(d)
            /\ \A i \in Writers : task[i].variant # "FlushResponse"
           THEN {Encode(Msg("FlushRequest", 1, 0), 0)}
           ELSE {}

NextRelay ==
  \/ \E i \in Writers : SrvRead(i, RelayFrames)
  \/ \E i \in Writers : PxCall(i)
  \/ \E i \in Writers : Write(i)
  \/ \E i \in Writers : Recv(i)
  \/ \E i \in Writers : FlushOld(i)
  \/ \E i \in Writers : PxHandle(i)
  \/ \E i \in Writers : WLock(i)
  \/ \E i \in Writers : WStep(i)
  \/ ReadFrame
  \/ PeerReply(GoodFrames(CoreResponseTypes, Tags, {0}))
  \/ PeerRecv

RelaySpec == InitProxy /\ [][NextRelay]_vars

(***************************************************************************)
(* ServeSpec: the server of WireSpec, one handler task at a time, reading  *)
(* frames of every type: the thirteen requests, the fourteen responses,    *)
(* and two codes that are no message type.                                 *)
(***************************************************************************)
ServeFrames ==
  ProxyFrames
    \cup GoodFrames(ResponseTypes, {0}, {0})
    \cup {UnknownFrame(mt, 0) : mt \in {Terror, Tlast}}

NextServe ==
  \/ \E i \in {1} : SrvRead(i, ServeFrames)
  \/ \E i \in {1} : Handle(i)
  \/ \E i \in {1} : WLock(i)
  \/ \E i \in {1} : WStep(i)
  \/ \E i \in {1} : WDone(i)
  \/ ProcessExit
  \/ WFail

ServeSpec == InitWalk /\ [][NextServe]_vars

(***************************************************************************)
(* CodecSpec: protocol.Encode and the three decoders, byte by byte.  The   *)
(* fields of a message are numbers, byte strings, qids (type, version,     *)
(* path), lists of strings or qids, and Stat structs (type, dev, qid,      *)
(* mode, atime, mtime, length, name, uid, gid, muid).                      *)
(***************************************************************************)
\* WriteByte ... WriteUint64: the n bytes of uintN(v), least significant first.
RECURSIVE LE_big(_, _)
\* The n bytes of v, most significant first.
LE_big(v, n) == IF n = 0 THEN << >> ELSE LE_big(v \div 256, n - 1) \o << v % 256 >>

RECURSIVE LE(_, _)
LE(v, n) == IF n = 0 THEN << >> ELSE << v % 256 >> \o LE(v \div 256, n - 1)

\* binary.LittleEndian.UintN of the bytes read.
RECURSIVE UnLE(_)
UnLE(b) == IF Len(b) = 0 THEN 0 ELSE Head(b) + 256 * UnLE(Tail(b))

\* The bytes of the fixed-width fields.
Width(kind) ==
  CASE kind = "u8" -> 1 [] kind = "u16" -> 2 [] kind = "u32" -> 4 [] kind = "u64" -> 8

\* The fields Qid.Encode and Qid.Decode go through, in their order.
QidSchema == <<"u8", "u32", "u64">>

\* The fields Stat.Encode and Stat.Decode go through after the size.
StatSchema ==
  <<"u16", "u32", "qid", "u32", "u32", "u32", "u64", "str", "str", "str", "str">>

\* The fields each variant's Encode and Decode go through, the tag first;
\* "nstat" is the Stat of an Rstat or Twstat with the size written before it.
Schema(variant) ==
  CASE variant \in {"VersionRequest", "VersionResponse"} -> <<"u16", "u32", "str">>
    [] variant = "AuthRequest" -> <<"u16", "u32", "str", "str">>
    [] variant \in {"AuthResponse", "AttachResponse"} -> <<"u16", "qid">>
    [] variant = "AttachRequest" -> <<"u16", "u32", "u32", "str", "str">>
    [] variant = "ErrorResponse" -> <<"u16", "str">>
    [] variant = "FlushRequest" -> <<"u16", "u16">>
    [] variant = "WalkRequest" -> <<"u16", "u32", "u32", "names">>
    [] variant = "WalkResponse" -> <<"u16", "qids">>
    [] variant = "OpenRequest" -> <<"u16", "u32", "u8">>
    [] variant \in {"OpenResponse", "CreateResponse"} -> <<"u16", "qid", "u32">>
    [] variant = "CreateRequest" -> <<"u16", "u32", "str", "u32", "u8">>
    [] variant = "ReadRequest" -> <<"u16", "u32", "u64", "u32">>
    [] variant = "ReadResponse" -> <<"u16", "data">>
    [] variant = "WriteRequest" -> <<"u16", "u32", "u64", "data">>
    [] variant = "WriteResponse" -> <<"u16", "u32">>
    [] variant \in {"ClunkRequest", "RemoveRequest", "StatRequest"} -> <<"u16", "u32">>
    [] variant \in {"FlushResponse", "ClunkResponse", "RemoveResponse",
                    "WriteStatResponse"} -> <<"u16">>
    [] variant = "StatResponse" -> <<"u16", "nstat">>
    [] variant = "WriteStatRequest" -> <<"u16", "u32", "nstat">>

\* Stat.EncodedLength without the lengths of the strings.
Stat_EncodedLength_fixed(s) == 2 + 2 + 4 + 13 + 4 + 4 + 4 + 8 + 8

\* Stat.EncodedLength.
Stat_EncodedLength(s) ==
  2 + 2 + 4 + 13 + 4 + 4 + 4 + 8 + 8 + Len(s[8]) + Len(s[9]) + Len(s[10]) + Len(s[11])

\* The loop of WalkRequest.EncodedLength: x += 2 + len(wr.Names[i]).
RECURSIVE NamesLength(_)
NamesLength(names) ==
  IF Len(names) = 0 THEN 0 ELSE 2 + Len(Head(names)) + NamesLength(Tail(names))

\* m.EncodedLength() of each variant.
Message_EncodedLength(m) ==
  LET f == m.f
      variant == m.variant IN
    CASE variant \in {"VersionRequest", "VersionResponse"} -> 2 + 4 + 2 + Len(f[3])
      [] variant = "AuthRequest" -> 2 + 4 + 2 + Len(f[3]) + 2 + Len(f[4])
      [] variant \in {"AuthResponse", "AttachResponse"} -> 2 + 13
      [] variant = "AttachRequest" -> 2 + 4 + 4 + 2 + Len(f[4]) + 2 + Len(f[5])
      [] variant = "ErrorResponse" -> 2 + 2 + Len(f[2])
      [] variant = "FlushRequest" -> 2 + 2
      [] variant = "WalkRequest" -> 2 + 4 + 4 + 2 + NamesLength(f[4])
      [] variant = "WalkResponse" -> 2 + 2 + 13 * Len(f[2])
      [] variant = "OpenRequest" -> 2 + 4 + 1
      [] variant \in {"OpenResponse", "CreateResponse"} -> 2 + 13 + 4
      [] variant = "CreateRequest" -> 2 + 4 + 2 + Len(f[3]) + 4 + 1
      [] variant = "ReadRequest" -> 2 + 4 + 8 + 4
      [] variant = "ReadResponse" -> 2 + 4 + Len(f[2])
      [] variant = "WriteRequest" -> 2 + 4 + 8 + 4 + Len(f[4])
      [] variant = "WriteResponse" -> 2 + 4
      [] variant \in {"ClunkRequest", "RemoveRequest", "StatRequest"} -> 2 + 4
      [] variant \in {"FlushResponse", "ClunkResponse", "RemoveResponse",
                      "WriteStatResponse"} -> 2
      [] variant = "StatResponse" -> 2 + 2 + Stat_EncodedLength(f[2])
      [] variant = "WriteStatRequest" -> 2 + 4 + 2 + Stat_EncodedLength(f[3])

\* The bytes the Write functions and the Encode methods of Qid and Stat
\* write for a field: WriteString and the lists write uint16(len) and then
\* the content, data uint32(len); Stat.Encode writes EncodedLength - 2 first,
\* and StatResponse and WriteStatRequest write Stat.EncodedLength before it.
RECURSIVE EncField(_, _), EncFields(_, _), EncList(_, _)
EncField(kind, v) ==
  CASE kind \in {"u8", "u16", "u32", "u64"} -> LE(v, Width(kind))
    [] kind = "str" -> LE(Len(v), 2) \o v
    [] kind = "data" -> LE(Len(v), 4) \o v
    [] kind = "qid" -> EncFields(QidSchema, v)
    [] kind = "names" -> LE(Len(v), 2) \o EncList("str", v)
    [] kind = "qids" -> LE(Len(v), 2) \o EncList("qid", v)
    [] kind = "stat" -> LE(Stat_EncodedLength(v) - 2, 2) \o EncFields(StatSchema, v)
    [] kind = "nstat" -> LE(Stat_EncodedLength(v), 2) \o EncField("stat", v)

EncFields(schema, vs) ==
  IF Len(schema) = 0 THEN << >>
  ELSE EncField(Head(schema), Head(vs)) \o EncFields(Tail(schema), Tail(vs))

EncList(kind, vs) ==
  IF Len(vs) = 0 THEN << >> ELSE EncField(kind, Head(vs)) \o EncList(kind, Tail(vs))

\* protocol.Encode: the size, the type, then d.Encode.
EncodeBytes(m) ==
  LE(Message_EncodedLength(m) + HeaderSize, 4)
    \o LE(MessageToMessageType(m.variant), 1)
    \o EncFields(Schema(m.variant), m.f)

\* A limiter that lets everything through.
limiter_unbounded(rest, n) == rest

\* io.LimitedReader{R: r, N: n}: what it can deliver of the bytes in the
\* transport.
limiter(rest, n) ==
  SubSeq(rest, 1, IF n < 0 THEN 0 ELSE IF n < Len(rest) THEN n ELSE Len(rest))

\* read (io.ReadFull) of k bytes after the first p of b: short of k bytes it
\* takes what there is and fails.
read(b, p, k) ==
  IF p + k <= Len(b)
    THEN [ok |-> TRUE, v |-> SubSeq(b, p + 1, p + k), p |-> p + k]
    ELSE [ok |-> FALSE, v |-> << >>, p |-> Len(b)]

\* The Read functions and the Decode methods of Qid and Stat, from byte p of
\* b on: the value, and the bytes consumed so far; the sizes before and in a
\* Stat are read and dropped.
RECURSIVE DecField(_, _, _), DecFields(_, _, _), DecList(_, _, _, _)
DecField(kind, b, p) ==
  CASE kind \in {"u8", "u16", "u32", "u64"} ->
         LET r == read(b, p, Width(kind)) IN
           [ok |-> r.ok, v |-> IF r.ok THEN UnLE(r.v) ELSE 0, p |-> r.p]
    [] kind \in {"str", "data"} ->
         LET l == DecField(IF kind = "str" THEN "u16" ELSE "u32", b, p) IN
           IF l.ok THEN read(b, l.p, l.v) ELSE l
    [] kind = "qid" -> DecFields(QidSchema, b, p)
    [] kind \in {"names", "qids"} ->
         LET n == DecField("u16", b, p) IN
           IF n.ok THEN DecList(IF kind = "names" THEN "str" ELSE "qid", n.v, b, n.p)
                   ELSE n
    [] kind = "stat" ->
         LET l == DecField("u16", b, p) IN
           IF l.ok THEN DecFields(StatSchema, b, l.p) ELSE l
    [] kind = "nstat" ->
         LET l == DecField("u16", b, p) IN
           IF l.ok THEN DecField("stat", b, l.p) ELSE l

DecFields(schema, b, p) ==
  IF Len(schema) = 0 THEN [ok |-> TRUE, v |-> << >>, p |-> p]
  ELSE LET h == DecField(Head(schema), b, p) IN
         IF ~h.ok THEN [ok |-> FALSE, v |-> << >>, p |-> h.p]
         ELSE LET t == DecFields(Tail(schema), b, h.p) IN
                [ok |-> t.ok, v |-> IF t.ok THEN << h.v >> \o t.v ELSE << >>, p |-> t.p]

DecList(kind, n, b, p) ==
  IF n = 0 THEN [ok |-> TRUE, v |-> << >>, p |-> p]
  ELSE LET h == DecField(kind, b, p) IN
         IF ~h.ok THEN [ok |-> FALSE, v |-> << >>, p |-> h.p]
         ELSE LET t == DecList(kind, n - 1, b, h.p) IN
                [ok |-> t.ok, v |-> IF t.ok THEN << h.v >> \o t.v ELSE << >>, p |-> t.p]

\* Every decoder taking the empty message MessageTypeToMessage gives.
decoderVariant_table(by, mt) ==
  IF by = "Server.Start" THEN serverSwitch(mt) ELSE MessageTypeToMessage(mt)

\* The empty message each decoder makes for a type: the switch of
\* protocol.Decode, MessageTypeToMessage in Client.Start, the switch of
\* Server.Start.
decoderVariant(by, mt) ==
  CASE by = "Decode" -> WireVariant(mt)
    [] by = "Client.Start" -> MessageTypeToMessage(mt)
    [] by = "Server.Start" -> serverSwitch(mt)

\* The size field of the header at the front of s.
HdrSize(s) == UnLE(SubSeq(s, 1, 4))

\* One frame taken from the bytes s by a decoder: DecodeHdr, the limiter of
\* size - HeaderSize bytes, the variant for the type, its Decode.  No decoder
\* looks at what the limiter has left when Decode returns.
decodeFrame(by, s) ==
  LET rest == SubSeq(s, HeaderSize + 1, Len(s))
      variant == decoderVariant(by, s[HeaderSize])
      d == DecFields(Schema(variant), limiter(rest, HdrSize(s) - HeaderSize), 0) IN
    IF Len(s) < HeaderSize
      THEN [by |-> by, err |-> EOF, msg |-> NoK, used |-> 0]
      ELSE IF variant = ErrUnknownMessageType
        THEN [by |-> by, err |-> ErrUnknownMessageType, msg |-> NoK, used |-> 0]
        ELSE IF ~d.ok
          THEN [by |-> by, err |-> EOF, msg |-> NoK, used |-> d.p]
          ELSE [by |-> by, err |-> "nil",
                msg |-> [variant |-> variant, f |-> d.v], used |-> d.p]

\* n bytes of content.
Bytes(n) == [i \in 1..n |-> 96 + i]

\* The field values of the messages of CodecSpec: numbers of more than one
\* byte, and strings, data and lists that are empty or of MaxLen elements.
Values(kind) ==
  LET lens == {0, MaxLen}
      qid == <<128, 3, 258>> IN
    CASE kind = "u8" -> {1}
      [] kind = "u16" -> {0, 258}
      [] kind = "u32" -> {65537}
      [] kind = "u64" -> {65538}
      [] kind \in {"str", "data"} -> {Bytes(n) : n \in lens}
      [] kind = "qid" -> {qid}
      [] kind = "names" -> {[i \in 1..n |-> Bytes(i - 1)] : n \in lens}
      [] kind = "qids" -> {[i \in 1..n |-> qid] : n \in lens}
      [] kind = "nstat" -> {<<1, 2, qid, 3, 4, 5, 6, Bytes(n), Bytes(k), << >>, Bytes(1)>> :
                              n \in lens, k \in lens}

RECURSIVE Tuples(_)
Tuples(schema) ==
  IF Len(schema) = 0 THEN {<< >>}
  ELSE {<< h >> \o t : h \in Values(Head(schema)), t \in Tuples(Tail(schema))}

\* The messages handed to Encode: every T and R variant, and the Tversion
\* that opens a session (tag NOTAG, msize 8192, version "9P2000").
Messages ==
  UNION {{[variant |-> v, f |-> t] : t \in Tuples(Schema(v))} :
           v \in {WireVariant(mt) : mt \in RequestTypes \cup ResponseTypes}}
    \cup {[variant |-> "VersionRequest",
           f |-> <<65535, 8192, <<57, 80, 50, 48, 48, 48>> >>]}

\* protocol.Encode writes the message on the transport.
KEncode ==
  /\ kwire = << >>
  /\ kwire' = EncodeBytes(kmsg)
  /\ UNCHANGED <<kmsg, kres>>
  /\ UNCHANGED <<cvars, wvars, uvars>>

\* The frame is one whose header advertises another size than its body has.
KTamper(d) ==
  /\ kwire # << >>
  /\ kres = NoDecoded
  /\ HdrSize(kwire) = Len(EncodeBytes(kmsg))
  /\ kwire' = LE(HdrSize(kwire) + d, 4) \o SubSeq(kwire, 5, Len(kwire))
  /\ UNCHANGED <<kmsg, kres>>
  /\ UNCHANGED <<cvars, wvars, uvars>>

\* Another frame follows on the transport: the Rflush of tag 0.
KFollow ==
  /\ kwire # << >>
  /\ kres = NoDecoded
  /\ Len(kwire) = Len(EncodeBytes(kmsg))
  /\ kwire' = kwire \o EncodeBytes([variant |-> "FlushResponse", f |-> << 0 >>])
  /\ UNCHANGED <<kmsg, kres>>
  /\ UNCHANGED <<cvars, wvars, uvars>>

\* The frame is one whose type byte is no message type.
KRetype(mt) ==
  /\ kwire # << >>
  /\ kres = NoDecoded
  /\ kwire[HeaderSize] = MessageToMessageType(kmsg.variant)
  /\ kwire' = [kwire EXCEPT ![HeaderSize] = mt]
  /\ UNCHANGED <<kmsg, kres>>
  /\ UNCHANGED <<cvars, wvars, uvars>>

\* A decoder takes a frame from the transport.
KDecode(by) ==
  /\ kwire # << >>
  /\ kres = NoDecoded
  /\ kres' = decodeFrame(by, kwire)
  /\ UNCHANGED <<kmsg, kwire>>
  /\ UNCHANGED <<cvars, wvars, uvars>>

NextCodec ==
  \/ KEncode
  \/ \E d \in {0 - 3, 0 - 1, 1} : KTamper(d)
  \/ KFollow
  \/ \E mt \in {Terror, Tlast} : KRetype(mt)
  \/ \E by \in {"Decode", "Client.Start", "Server.Start"} : KDecode(by)

InitCodec == side = "client" /\ kmsg \in Messages /\ NewTags /\ InitEngines

CodecSpec == InitCodec /\ [][NextCodec]_vars

(***************************************************************************)
(* TagSpec: Client.NextTag called over and over by one caller.  The        *)
(* counter is a protocol.Tag (uint16): it has its real width, and a round  *)
(* of tags takes 65535 calls.                                              *)
(***************************************************************************)
\* protocol.NOTAG, the tag of Tversion.
NOTAG == 65535

MaxTagCalls == 131071

\* NextTag without the test for NOTAG.
NextTag_noSkip(nt) == [t |-> nt, nextTag |-> (nt + 1) % 65536]

\* Client.NextTag on a counter nt: the tag returned and the counter left;
\* c.nextTag++ wraps at 16 bits.
NextTag(nt) ==
  LET inc == (nt + 1) % 65536 IN
    [t |-> nt, nextTag |-> IF inc = NOTAG THEN (inc + 1) % 65536 ELSE inc]

\* One call of c.NextTag().
TagCall ==
  /\ ntags < MaxTagCalls
  /\ LET r == NextTag(nextTag) IN
       /\ nextTag' = r.nextTag
       /\ lastTag' = r.t
       /\ seenAt' = [t \in ProbeTags |-> IF t = r.t THEN ntags + 1 ELSE seenAt[t]]
  /\ ntags' = ntags + 1
  /\ UNCHANGED <<cvars, wvars, kvars, bvars, lvars, rvars>>

\* The client after its first 65530 calls of NextTag, five calls before the
\* end of the first round (a state TagCall reaches from NewTags).
LateTags ==
  /\ nextTag = NOTAG - 5
  /\ ntags = NOTAG - 5
  /\ lastTag = NOTAG - 6
  /\ seenAt = [t \in ProbeTags |-> IF t = 0 THEN 1 ELSE 0]

InitTag == side = "client" /\ kmsg = NoK /\ (NewTags \/ LateTags) /\ InitEngines

TagSpec == InitTag /\ [][TagCall]_vars

(***************************************************************************)
(* RaceSpec: Client.NextTag called by several goroutines at once.  NextTag *)
(* takes no lock, so the reads and writes of c.nextTag of the calls        *)
(* interleave; each c.nextTag++ is a load and a store.                     *)
(***************************************************************************)
Racers == 1..NumRacers

\* t := c.nextTag
RRead(r) ==
  /\ rpc[r] = "idle"
  /\ rcalls < MaxRaceCalls
  /\ rt' = [rt EXCEPT ![r] = nextTag]
  /\ rpc' = [rpc EXCEPT ![r] = "inc"]
  /\ rcalls' = rcalls + 1
  /\ UNCHANGED <<rreg, tvars>>
  /\ UNCHANGED <<cvars, wvars, kvars, bvars, lvars>>

\* c.nextTag++, first half (either of the two): the load.
RLoad(r) ==
  /\ rpc[r] \in {"inc", "skip"}
  /\ rreg' = [rreg EXCEPT ![r] = nextTag]
  /\ rpc' = [rpc EXCEPT ![r] = IF rpc[r] = "inc" THEN "incStore" ELSE "skipStore"]
  /\ UNCHANGED <<rt, rcalls, tvars>>
  /\ UNCHANGED <<cvars, wvars, kvars, bvars, lvars>>

\* c.nextTag++, second half: the store, 16 bits wide.
RStore(r) ==
  /\ rpc[r] \in {"incStore", "skipStore"}
  /\ nextTag' = (rreg[r] + 1) % 65536
  /\ rpc' = [rpc EXCEPT ![r] = IF rpc[r] = "incStore" THEN "test" ELSE "ret"]
  /\ UNCHANGED <<rt, rreg, rcalls, ntags, lastTag, seenAt>>
  /\ UNCHANGED <<cvars, wvars, kvars, bvars, lvars>>

\* if c.nextTag == protocol.NOTAG
RTest(r) ==
  /\ rpc[r] = "test"
  /\ rpc' = [rpc EXCEPT ![r] = IF nextTag = NOTAG THEN "skip" ELSE "ret"]
  /\ UNCHANGED <<rt, rreg, rcalls, tvars>>
  /\ UNCHANGED <<cvars, wvars, kvars, bvars, lvars>>

\* return t: the caller holds rt[r].
RReturn(r) ==
  /\ rpc[r] = "ret"
  /\ rpc' = [rpc EXCEPT ![r] = "done"]
  /\ UNCHANGED <<rt, rreg, rcalls, tvars>>
  /\ UNCHANGED <<cvars, wvars, kvars, bvars, lvars>>

\* The caller is free to call NextTag again.
RAgain(r) ==
  /\ rpc[r] = "done"
  /\ rpc' = [rpc EXCEPT ![r] = "idle"]
  /\ UNCHANGED <<rt, rreg, rcalls, tvars>>
  /\ UNCHANGED <<cvars, wvars, kvars, bvars, lvars>>

NextRace ==
  \/ \E r \in Racers : RRead(r)
  \/ \E r \in Racers : RLoad(r)
  \/ \E r \in Racers : RStore(r)
  \/ \E r \in Racers : RTest(r)
  \/ \E r \in Racers : RReturn(r)
  \/ \E r \in Racers : RAgain(r)

\* The client after 65534 calls of NextTag made one after the other: the
\* counter stands at the last tag before NOTAG.
LastTags ==
  /\ nextTag = NOTAG - 1
  /\ ntags = NOTAG - 1
  /\ lastTag = NOTAG - 2
  /\ seenAt = [t \in ProbeTags |-> IF t = 0 THEN 1 ELSE 0]

InitRace == side = "client" /\ kmsg = NoK /\ (NewTags \/ LastTags) /\ InitEngines

RaceSpec == InitRace /\ [][NextRace]_vars

(***************************************************************************)
(* StringSpec: WriteString(w, s) and then ReadString on what was written.  *)
(***************************************************************************)
\* The string of n bytes that StringSpec writes for the length n (kmsg holds
\* the length, the string is Str of it).
Str(n) == [i \in 1..n |-> 97 + (i % 26)]

\* The lengths of the strings written: short ones, and the lengths around
\* the largest a uint16 holds.
StrLens == 0..MaxStr \cup {65535, 65536, 65536 + MaxStr}

\* WriteString: WriteUint16(w, uint16(len(s))), then write(w, []byte(s)).
WriteString(s) == LE(Len(s) % 65536, 2) \o s

\* ReadString from the start of b: ReadUint16, then read of that many bytes.
ReadString(b) ==
  LET l == read(b, 0, 2) IN
    IF l.ok THEN read(b, l.p, UnLE(l.v)) ELSE l

SWrite ==
  /\ kmsg.variant = "string"
  /\ kwire = << >>
  /\ kres = NoDecoded
  /\ kwire' = WriteString(Str(kmsg.f[1]))
  /\ UNCHANGED <<kmsg, kres>>
  /\ UNCHANGED <<cvars, wvars, uvars>>

SRead ==
  /\ kmsg.variant = "string"
  /\ kwire # << >>
  /\ kres = NoDecoded
  /\ LET r == ReadString(kwire) IN
       kres' = [by |-> "ReadString", err |-> IF r.ok THEN "nil" ELSE EOF,
                msg |-> [variant |-> "string", f |-> << r.v >>], used |-> r.p]
  /\ UNCHANGED <<kmsg, kwire>>
  /\ UNCHANGED <<cvars, wvars, uvars>>

NextString == SWrite \/ SRead

InitString ==
  /\ side = "client"
  /\ kmsg \in {[variant |-> "string", f |-> << n >>] : n \in StrLens}
  /\ NewTags
  /\ InitEngines

StringSpec == InitString /\ [][NextString]_vars

(***************************************************************************)
(* WriteSpec: the write primitive of the protocol package, write(w, b),    *)
(* with a writer that takes as many of the bytes offered as it likes, at   *)
(* least one, or fails.                                                    *)
(***************************************************************************)
MaxBuf == 4
MaxOut == 8

\* One turn of the loop of write: w.Write(b[written:]) takes n bytes and
\* returns n, which is assigned to written.
protocol_write(wb, n) ==
  [wb EXCEPT !.out = @ \o SubSeq(wb.b, wb.written + 1, wb.written + n),
             !.written = n]

\* write(w, b) is called with a buffer of up to MaxBuf bytes.
BCall ==
  /\ wbuf.st = "idle"
  /\ \E n \in 0..MaxBuf : wbuf' = [st |-> "loop", b |-> Bytes(n), written |-> 0,
                                    out |-> << >>]
  /\ UNCHANGED <<cvars, wvars, kvars, tvars, lvars, rvars>>

\* for written < l: the writer takes n >= 1 of the bytes of b[written:] and
\* returns no error.
BWrite ==
  /\ wbuf.st = "loop"
  /\ wbuf.written < Len(wbuf.b)
  /\ Len(wbuf.out) < MaxOut
  /\ \E n \in 1..(Len(wbuf.b) - wbuf.written) : wbuf' = protocol_write(wbuf, n)
  /\ UNCHANGED <<cvars, wvars, kvars, tvars, lvars, rvars>>

\* The writer returns an error: write returns it.
BFail ==
  /\ wbuf.st = "loop"
  /\ wbuf.written < Len(wbuf.b)
  /\ wbuf' = [wbuf EXCEPT !.st = "failed"]
  /\ UNCHANGED <<cvars, wvars, kvars, tvars, lvars, rvars>>

\* The loop ends when written >= l: return nil.
BReturn ==
  /\ wbuf.st = "loop"
  /\ wbuf.written >= Len(wbuf.b)
  /\ wbuf' = [wbuf EXCEPT !.st = "returned"]
  /\ UNCHANGED <<cvars, wvars, kvars, tvars, lvars, rvars>>

NextWrite == BCall \/ BWrite \/ BFail \/ BReturn

WriteSpec == Init /\ [][NextWrite]_vars

(***************************************************************************)
(* LockSpec: the four functions of Client that touch the map Client.queue, *)
(* each run by a goroutine of its own, at the grain of the lock: a path is *)
(* "in" from its first access to the map to its last.  Go maps are not     *)
(* safe for concurrent use: when two paths are in at once, the map is left *)
(* in any state, or the runtime stops the process.                         *)
(***************************************************************************)
\* The functions that take queueLock before they touch the map: getTag,
\* handleResponse and flush do (Lock, defer Unlock); write holds writeLock
\* only.
takesQueueLock(p) == p # "write"

\* The map after path p, called with tag t, has run alone: getTag stores a
\* channel under t, the others delete t.
queueAfter(p, t, tab) == IF p = "getTag" THEN tab \cup {t} ELSE tab \ {t}

\* Path p is called with tag t and reaches its access to the map: after
\* queueLock.Lock() in getTag, handleResponse and flush, after a failed
\* Encode in write.
LEnter(p, t) ==
  /\ ~lfatal
  /\ lpc[p] = "idle"
  /\ IF takesQueueLock(p)
       THEN queueLock = "free" /\ queueLock' = p
       ELSE UNCHANGED queueLock
  /\ lpc' = [lpc EXCEPT ![p] = "in"]
  /\ ltag' = [ltag EXCEPT ![p] = t]
  /\ UNCHANGED <<ltab, lfatal>>
  /\ UNCHANGED <<cvars, wvars, kvars, tvars, bvars, rvars>>

\* Path p ends its access to the map and returns (the deferred Unlock).
\* Alone at the map, it leaves the map as its code says; with another path
\* at the map at the same time, anything.
LLeave(p) ==
  /\ ~lfatal
  /\ lpc[p] = "in"
  /\ IF \E o \in Paths \ {p} : lpc[o] = "in"
       THEN ltab' \in SUBSET Tags /\ lfatal' \in BOOLEAN
       ELSE ltab' = queueAfter(p, ltag[p], ltab) /\ UNCHANGED lfatal
  /\ queueLock' = IF takesQueueLock(p) THEN "free" ELSE queueLock
  /\ lpc' = [lpc EXCEPT ![p] = "idle"]
  /\ UNCHANGED ltag
  /\ UNCHANGED <<cvars, wvars, kvars, tvars, bvars, rvars>>

NextLock ==
  \/ \E p \in Paths, t \in Tags : LEnter(p, t)
  \/ \E p \in Paths : LLeave(p)

LockSpec == Init /\ [][NextLock]_vars

(***************************************************************************)
(* Steps, as the claims name them.                                         *)
(***************************************************************************)
\* Caller c enters an operation (send's getTag runs).
CallStep(c) == pc[c] = "idle" /\ pc'[c] # "idle"

\* Client.write of caller c runs.
WriteStep(c) == pc[c] = "write" /\ pc'[c] = "wait"

\* Caller c receives from its channel.
RecvStep(c) == pc[c] = "wait" /\ pc'[c] # "wait"

\* Flush's c.flush(OldTag) of caller c runs.
FlushStep(c) == pc[c] = "flush" /\ pc'[c] = "done"

\* Client.Start takes the frame at the head of s2c.
ReadStep ==
  /\ reader = "running"
  /\ s2c # << >>
  /\ reader' = "stopped" \/ s2c' = Tail(s2c)

\* Client.Start returns.
StopStep == reader = "running" /\ reader' = "stopped"

\* A frame as protocol.Encode writes it.
WellFormed(f) ==
  /\ f.mt \in ResponseTypes
  /\ f.size = EncodedLength(WireVariant(f.mt), f.val) + HeaderSize

\* A Flush naming tag t is in progress in some caller other than c.
FlushNaming(t, c) ==
  \E f \in Callers \ {c} : FlushInProgress(f) /\ req[f].oldtag = t

(***************************************************************************)
(* Claims about the client engine.                                         *)
(***************************************************************************)

\* C1: at the step where Client.Start terminates (transport EOF or a parse
\* error), every request registered in the pending table is woken: its
\* channel receives a value, so that its caller does not stay blocked in send.
C1_StopWakesPending ==
  [][StopStep =>
       \A t \in Tags : queue[t] # NoSlot => ch'[queue[t]] # << >>]_vars

\* C2: when Client.write fails for a caller's request, the request's slot is
\* out of the pending table and the operation has returned the transport
\* error to its caller; the caller is not left waiting for a response.
C2_WriteErrorReturned ==
  \A c \in Callers :
    wres[c] = EOF =>
      /\ queue[req[c].tag] # c
      /\ pc[c] = "done"
      /\ result[c].err = EOF

\* C3: a send whose tag is registered in the pending table returns
\* ErrTagInUse at once, writes no frame, and leaves the table and the channel
\* of the request that holds the tag as they were.
C3_TagInUse ==
  [][\A c \in Callers :
       (CallStep(c) /\ queue[req'[c].tag] # NoSlot) =>
         /\ pc'[c] = "done"
         /\ result'[c] = Result(Nil, ErrTagInUse, 0)
         /\ c2s' = c2s
         /\ queue' = queue
         /\ ch' = ch]_vars

\* C3 witness: a caller was refused with ErrTagInUse while the request that
\* holds the tag is still registered and waiting.
C3_Witness ==
  \E c, d \in Callers :
    /\ c # d
    /\ pc[c] = "done"
    /\ result[c].err = ErrTagInUse
    /\ queue[req[c].tag] = d
    /\ pc[d] = "wait"

\* C4: once the caller of a request has observed its response, its tag can
\* be reused: a request registered under the tag after that is not completed
\* with ErrFlushed by the c.flush of an earlier Flush, one that named the
\* previous request and whose Rflush arrives later.
C4_ReuseAfterResponse ==
  [][\A f, c \in Callers :
       (FlushStep(f) /\ f \in reuse[c]) => ch'[c] = ch[c]]_vars

C6_ResponseBeforeRflush ==
  [][/\ \A c \in Callers :
          (ReadStep /\ reader' = "running" /\ queue[Head(s2c).tag] = c
             /\ FlushNaming(Head(s2c).tag, c)) =>
            /\ ch'[c] = << Msg(WireVariant(Head(s2c).mt), Head(s2c).tag, Head(s2c).val) >>
            /\ queue'[Head(s2c).tag] = NoSlot
     /\ \A c \in Callers :
          (RecvStep(c) /\ Head(ch[c]) # Nil) =>
            /\ result'[c].err # ErrFlushed
            /\ Head(ch[c]).variant = ExpectedResponse(req[c].variant) =>
                 result'[c] = Result(Head(ch[c]), "nil", 0)
     /\ \A f \in Callers :
          (FlushStep(f) /\ queue[req[f].oldtag] = NoSlot) =>
            /\ ch' = ch
            /\ queue' = queue
            /\ result'[f] = Result(Msg("FlushResponse", req[f].tag, 0), "nil", 0)]_vars

\* C6 witness: the request a Flush named was answered, its caller returned
\* the response, and the Flush has returned its FlushResponse.
C6_Witness ==
  \E f, c \in Callers :
    /\ f # c
    /\ pc[f] = "done"
    /\ flt[f].st = "answered"
    /\ result[f] = Result(Msg("FlushResponse", req[f].tag, 0), "nil", 0)
    /\ pc[c] = "done"
    /\ req[c].tag = req[f].oldtag
    /\ result[c] = Result(Msg("ReadResponse", req[c].tag, 0), "nil", 0)

\* C7: a tag whose request has completed is free: the delivery of a response
\* and the c.flush of a Flush leave the tag out of the pending table, and a
\* send with a tag that is not in the table is accepted, not refused.
C7_TagFreeAfterCompletion ==
  [][/\ (ReadStep /\ reader' = "running" /\ queue[Head(s2c).tag] # NoSlot) =>
          queue'[Head(s2c).tag] = NoSlot
     /\ \A f \in Callers : FlushStep(f) => queue'[req[f].oldtag] = NoSlot
     /\ \A c \in Callers :
          (CallStep(c) /\ queue[req'[c].tag] = NoSlot) =>
            /\ pc'[c] = "write"
            /\ queue'[req'[c].tag] = c]_vars

\* C7 witness: a caller holds the response of a request, and another
\* request with the same tag has been accepted.
C7_Witness ==
  \E c, d \in Callers :
    /\ c # d
    /\ pc[d] = "done"
    /\ result[d].err = "nil"
    /\ pc[c] \in {"write", "wait"}
    /\ req[c].tag = result[d].resp.tag
    /\ queue[req[c].tag] = c

\* C8: for each of the thirteen operations, when Client.Start reads the
\* paired R-message carrying the tag of the operation's registered request,
\* the message is delivered as the paired response variant and the
\* operation returns it with no error.
C8_PairedResponseReturned ==
  [][/\ \A c \in Callers :
          (ReadStep /\ WellFormed(Head(s2c)) /\ queue[Head(s2c).tag] = c
             /\ Head(s2c).mt = MessageToMessageType(ExpectedResponse(req[c].variant))) =>
            /\ reader' = "running"
            /\ ch'[c] = << Msg(ExpectedResponse(req[c].variant),
                               Head(s2c).tag, Head(s2c).val) >>
     /\ \A c \in Callers :
          (RecvStep(c) /\ Head(ch[c]).variant = ExpectedResponse(req[c].variant)) =>
            result'[c] = Result(Head(ch[c]), "nil", 0)]_vars

\* C15: when the message a caller receives for its request is an Rerror,
\* the operation (Flush included, which then wakes no one) returns no
\* response and an error made from the Rerror's string, and the message of
\* that error is exactly the string.
C15_RerrorReturned ==
  [][\A c \in Callers :
       (RecvStep(c) /\ Head(ch[c]).variant = "ErrorResponse") =>
         /\ pc'[c] = "done"
         /\ result'[c] = Result(Nil, "remote", Head(ch[c]).val)
         /\ ErrorString(handlerError(result'[c])) = Head(ch[c]).val]_vars

\* C15 witness: an operation has returned the error of an Rerror whose
\* string is not the empty one.
C15_Witness ==
  \E c \in Callers :
    /\ pc[c] = "done"
    /\ req[c].variant # "FlushRequest"
    /\ result[c] = Result(Nil, "remote", MaxVal)

\* C16: when the message a caller receives for its request is neither an
\* Rerror nor the R-variant paired with the request, the operation returns
\* ErrInvalidResponse and no response.
C16_InvalidResponse ==
  [][\A c \in Callers :
       (RecvStep(c) /\ Head(ch[c]) # Nil
          /\ Head(ch[c]).variant \notin
               {"ErrorResponse", ExpectedResponse(req[c].variant)}) =>
         /\ pc'[c] = "done"
         /\ result'[c] = Result(Nil, ErrInvalidResponse, 0)]_vars

\* C16 witness: a Read was answered with one frame, which Start has read,
\* and has returned ErrInvalidResponse.
C16_Witness ==
  \E c \in Callers :
    /\ pc[c] = "done"
    /\ req[c].variant = "ReadRequest"
    /\ result[c] = Result(Nil, ErrInvalidResponse, 0)
    /\ srv[req[c].tag] = 0
    /\ s2c = << >>
    /\ nframes = 1

(***************************************************************************)
(* Claims about the write paths and the server.                            *)
(***************************************************************************)
\* The writes of one frame are together on the wire, in Encode's order: each
\* write after a frame's first comes right after the write before it of the
\* same frame, with no write of another frame between them.
Contiguous(w) ==
  \A k \in 1..Len(w) :
    w[k].part # "size" =>
      /\ k > 1
      /\ w[k - 1].w = w[k].w
      /\ <<w[k - 1].part, w[k].part>> \in
           {<<"size", "type">>, <<"type", "tag">>, <<"tag", "body">>}

\* C9: on the client's transport under concurrent callers, and on the
\* server's under concurrent handler tasks, the writes of two frames never
\* interleave: each frame's header and body are contiguous on the wire.
C9_FramesContiguous == Contiguous(wire)

\* C9 witness, client: a caller is in the middle of its frame, holding the
\* lock, after another caller's frame was written whole, while that other
\* caller waits for the lock with its next frame.
C9_WitnessClient ==
  /\ side = "client"
  /\ \E i, j \in Writers :
       /\ i # j
       /\ wpc[i] = "enc"
       /\ wpos[i] \in 1..2
       /\ Len(wire) > 4
       /\ wire[1].w = j
       /\ wpc[j] = "lock"

\* C9 witness, server: the same between two handler tasks.
C9_WitnessServer ==
  /\ side = "server"
  /\ \E i, j \in Writers :
       /\ i # j
       /\ wpc[i] = "enc"
       /\ wpos[i] \in 1..2
       /\ Len(wire) > 3
       /\ wire[1].w = j
       /\ wpc[j] = "lock"

\* C10: every tag the server writes in a reply frame is the tag of the
\* request the reply is for, in a success reply and in an Rerror, whatever
\* tag the handler left in the response it returned.
C10_ReplyEchoesTag ==
  side = "server" =>
    \A k \in 1..Len(wire) :
      wire[k].part = "tag" => wire[k].v = wire[k].rtag

\* C10 witness: a handler returned a response holding another tag than its
\* request's, another handler returned such a response and an error, and
\* both replies, the second an Rerror, are on the wire.
C10_Witness ==
  /\ side = "server"
  /\ \E i, j \in Writers :
       /\ wpc[i] = "done"
       /\ task[i].err = "nil"
       /\ task[i].res # Nil
       /\ task[i].res.tag # task[i].tag
       /\ wpc[j] = "done"
       /\ task[j].err = ErrHandler
       /\ task[j].res # Nil
       /\ task[j].res.tag # task[j].tag
       /\ \E a, b \in 1..Len(wire) :
            /\ wire[a].w = i
            /\ wire[a].part = "tag"
            /\ wire[b].w = j
            /\ wire[b].part = "tag"
            /\ wire[b - 1].v = Rerror

\* The handler of task i returns.
HandleStep(i) == wpc[i] = "handler" /\ wpc'[i] # "handler"

\* Writer i makes a write on the transport.
WireStep(i) == wpc[i] = "enc" /\ Len(wire') = Len(wire) + 1

\* C11: when a handler returns an error other than ErrFlushed, with or
\* without a response, the server goes on to write an ErrorResponse holding
\* the request's tag and the error's message, and every write it makes for
\* that request is the next write of that Rerror frame.
C11_ErrorReply ==
  [][\A i \in Writers :
       /\ (HandleStep(i) /\ task'[i].err = ErrHandler) =>
            /\ wpc'[i] = "lock"
            /\ wout'[i] = Out("msg", Msg("ErrorResponse", task[i].tag,
                                          ErrorString(ErrHandler)))
       /\ (side = "server" /\ WireStep(i) /\ task[i].err = ErrHandler) =>
            wire'[Len(wire')] =
              [w |-> i, rtag |-> task[i].tag,
               part |-> EncodeWrites(Msg("ErrorResponse", task[i].tag,
                                         ErrorString(ErrHandler)))[wpos[i] + 1].part,
               v |-> EncodeWrites(Msg("ErrorResponse", task[i].tag,
                                      ErrorString(ErrHandler)))[wpos[i] + 1].v]]_vars

\* C11 witness: a handler returned a response together with an error, and
\* the whole Rerror frame, with the request's tag and the error's message,
\* is the last frame on the wire.
C11_Witness ==
  /\ side = "server"
  /\ \E i \in Writers :
       /\ wpc[i] = "done"
       /\ task[i].err = ErrHandler
       /\ task[i].res # Nil
       /\ Len(wire) >= 4
       /\ wire[Len(wire)] = [w |-> i, rtag |-> task[i].tag, part |-> "body",
                             v |-> ErrorString(ErrHandler)]
       /\ wire[Len(wire) - 1].v = task[i].tag
       /\ wire[Len(wire) - 2].v = Rerror
       /\ wire[Len(wire) - 3].w = i

\* C12: when a handler returns ErrFlushed, the server writes nothing for the
\* request: the task ends without taking the lock, and no write on the
\* transport is made by a task whose handler returned ErrFlushed.
C12_FlushedWritesNothing ==
  [][\A i \in Writers :
       /\ (HandleStep(i) /\ task'[i].err = ErrFlushed) =>
            /\ wpc'[i] = "done"
            /\ wout'[i] = NoOut
            /\ wire' = wire
       /\ (side = "server" /\ WireStep(i)) => task[i].err # ErrFlushed]_vars

\* C12 witness: a handler returned a response together with ErrFlushed, its
\* task has ended, and the wire holds the whole reply of another task and
\* nothing else.
C12_Witness ==
  /\ side = "server"
  /\ \E i, j \in Writers :
       /\ i # j
       /\ wpc[i] = "done"
       /\ task[i].err = ErrFlushed
       /\ task[i].res # Nil
       /\ wpc[j] = "done"
       /\ task[j].err = "nil"
       /\ wire # << >>
       /\ \A k \in 1..Len(wire) : wire[k].w = j
       /\ wire[Len(wire)].part = "body"
       /\ nwrites = 2

\* C13: the receive loop does not wait for a handler: while the handler of a
\* request has not returned, the loop can read and dispatch the next
\* request, and the task of that later request can take the free lock and
\* make its writes.
C13_NoWaitForHandler ==
  (side = "server" /\ \E a \in Writers : wpc[a] = "handler") =>
    \A b \in Writers :
      /\ (server = "running" /\ wpc[b] = "idle" /\ nwrites < MaxWrites) =>
           ENABLED SrvRead(b, ServerFrames)
      /\ (server # "exited" /\ wpc[b] = "handler") => ENABLED Handle(b)
      /\ (server # "exited" /\ wpc[b] = "lock" /\ wlock = NoSlot) =>
           ENABLED WLock(b)
      /\ (server # "exited" /\ wpc[b] = "enc") => ENABLED WStep(b)

\* C13 witness: request B was dispatched while the handler of request A was
\* running; A's handler has still not returned, and B's whole reply is on
\* the wire.
C13_Witness ==
  /\ side = "server"
  /\ \E a, b \in Writers :
       /\ a # b
       /\ a \in task[b].after
       /\ wpc[a] = "handler"
       /\ wpc[b] = "done"
       /\ task[b].err = "nil"
       /\ wire # << >>
       /\ wire[Len(wire)] = [w |-> b, rtag |-> task[b].tag, part |-> "body", v |-> 0]
       /\ \A k \in 1..Len(wire) : wire[k].w = b


(***************************************************************************)
(* Claims about the proxy.                                                 *)
(***************************************************************************)
\* The reply a handler task's request is owed by upstream frame f: an Rerror
\* or the R-message paired with the request.
ProxyReply(i, f) ==
  /\ WellFormed(f)
  /\ wpc[i] = "handler"
  /\ queue[f.tag] = i
  /\ f.mt \in {Rerror, MessageToMessageType(task[i].variant)}

\* C14: a server whose handler is a client connected to an upstream server
\* is a transparent proxy.  For every request type, the reply the upstream
\* server sends for the request reaches the handler task as it was sent
\* (same type, same fields), the client operation returns it (an Rerror as
\* an error with the same string), and the message the task passes to Encode
\* for the downstream transport has the same type and fields with the tag of
\* the downstream request; an upstream Rerror gives a downstream Rerror with
\* the same string.
C14_TransparentProxy ==
  [][\A i \in Writers :
       /\ (ReadStep /\ ProxyReply(i, Head(s2c))) =>
            /\ reader' = "running"
            /\ ch'[i] = << Msg(WireVariant(Head(s2c).mt), Head(s2c).tag,
                               Head(s2c).val) >>
       /\ (RecvStep(i) /\ wpc[i] = "handler" /\ Head(ch[i]) # Nil) =>
            /\ Head(ch[i]).variant = "ErrorResponse" =>
                 result'[i] = Result(Nil, "remote", Head(ch[i]).val)
            /\ Head(ch[i]).variant = task[i].variant =>
                 result'[i] = Result(Head(ch[i]), "nil", 0)
       /\ (HandleStep(i) /\ pc[i] = "done") =>
            /\ result[i].err = "remote" =>
                 wout'[i] = Out("msg", Msg("ErrorResponse", task[i].tag,
                                           result[i].estr))
            /\ result[i].err = "nil" =>
                 wout'[i] = Out("msg", [result[i].resp EXCEPT !.tag = task[i].tag])]_vars


(***************************************************************************)
(* Claims about the codec.                                                 *)
(***************************************************************************)
\* The transport holds, at its front, the frame as Encode wrote it.
Untouched ==
  /\ kwire # << >>
  /\ SubSeq(kwire, 1, Len(EncodeBytes(kmsg))) = EncodeBytes(kmsg)

\* The body bytes the decoder's variant for the frame at the front of s takes
\* when nothing stops it; one more than there are when they do not suffice.
Need(by, s) ==
  LET rest == SubSeq(s, HeaderSize + 1, Len(s))
      d == DecFields(Schema(decoderVariant(by, s[HeaderSize])), rest, 0) IN
    IF d.ok THEN d.p ELSE Len(rest) + 1

\* C17: for every T and R variant, with field values within the wire widths,
\* protocol.Decode of the frame protocol.Encode wrote gives a message of the
\* same variant with the same field values, and no error.
C17_RoundTrip ==
  (kres.by = "Decode" /\ Untouched) =>
    /\ kres.err = "nil"
    /\ kres.msg = kmsg

\* C17 witness: a Twstat whose Stat has names of more than no bytes came back
\* from Decode as it was, with another frame behind it on the transport.
C17_Witness ==
  /\ kres.by = "Decode"
  /\ Untouched
  /\ Len(kwire) > Len(EncodeBytes(kmsg))
  /\ kmsg.variant = "WriteStatRequest"
  /\ Len(kmsg.f[3][8]) = MaxLen
  /\ kres.msg = kmsg

\* C18: for every message, Encode writes EncodedLength() + 5 bytes, and the
\* size field of the header it writes is that number.
C18_SizeAccurate ==
  kwire = EncodeBytes(kmsg) =>
    /\ Len(kwire) = Message_EncodedLength(kmsg) + 5
    /\ HdrSize(kwire) = Message_EncodedLength(kmsg) + 5

\* C18 witness: an Rstat with a name and a uid of MaxLen bytes is on the
\* transport as Encode wrote it.
C18_Witness ==
  /\ kwire = EncodeBytes(kmsg)
  /\ kmsg.variant = "StatResponse"
  /\ Len(kmsg.f[2][8]) = MaxLen
  /\ Len(kmsg.f[2][9]) = MaxLen

\* C19: when the body of a frame needs more bytes than the header's
\* size - 5, the decoder (protocol.Decode, Client.Start, Server.Start)
\* returns an error and no message, and has consumed no body byte past the
\* first size - 5 (none at all when size is under 5).
C19_OverRead ==
  (kres.by # "none" /\ kres.err # ErrUnknownMessageType
     /\ Need(kres.by, kwire) > HdrSize(kwire) - HeaderSize) =>
    /\ kres.err # "nil"
    /\ kres.msg = NoK
    /\ kres.used <= (IF HdrSize(kwire) < HeaderSize THEN 0
                     ELSE HdrSize(kwire) - HeaderSize)

\* C19 witness: an Rwalk of MaxLen qids whose header advertises one byte less
\* than it has, with another frame behind it, was refused by Client.Start
\* with all of the advertised bytes consumed and no more.
C19_Witness ==
  /\ kres.by = "Client.Start"
  /\ kmsg.variant = "WalkResponse"
  /\ Len(kmsg.f[2]) = MaxLen
  /\ Len(kwire) > Len(EncodeBytes(kmsg))
  /\ HdrSize(kwire) = Len(EncodeBytes(kmsg)) - 1
  /\ kres.err = EOF
  /\ kres.used = HdrSize(kwire) - HeaderSize

\* C20: when the header's size is more than 5 plus the bytes the variant's
\* Decode consumes, the decoder (protocol.Decode, Client.Start,
\* Server.Start) returns an error and not a message.
C20_UnderRead ==
  (kres.by # "none" /\ kres.err # ErrUnknownMessageType
     /\ HdrSize(kwire) > HeaderSize + kres.used) =>
    kres.err # "nil"

\* C21: a frame whose type byte is none of the message types is refused by
\* the decoder (protocol.Decode, Client.Start, Server.Start) with
\* ErrUnknownMessageType and no message, and no byte of the body behind the
\* 5-byte header has been consumed.
C21_UnknownType ==
  (kres.by # "none" /\ kwire[HeaderSize] \notin RequestTypes \cup ResponseTypes) =>
    /\ kres.err = ErrUnknownMessageType
    /\ kres.msg = NoK
    /\ kres.used = 0

\* C21 witness: the frame of a Twalk with MaxLen names, its type byte replaced
\* by Tlast and its body all there, was refused by Server.Start with
\* ErrUnknownMessageType.
C21_Witness ==
  /\ kres.by = "Server.Start"
  /\ kmsg.variant = "WalkRequest"
  /\ Len(kmsg.f[4]) = MaxLen
  /\ kwire[HeaderSize] = Tlast
  /\ HdrSize(kwire) = Len(kwire)
  /\ Len(kwire) > HeaderSize
  /\ kres.err = ErrUnknownMessageType
  /\ kres.used = 0

\* C24: Encode of VersionRequest{Tag: 0xFFFF, MaxSize: 8192, Version:
\* "9P2000"} writes the 19 bytes 13 00 00 00 64 FF FF 00 20 00 00 06 00 39 50
\* 32 30 30 30: the little-endian size with the header, the type byte 100,
\* the tag, the msize, then the version behind its u16 length.
C24_VersionBytes ==
  [][(/\ kmsg = [variant |-> "VersionRequest",
                 f |-> <<65535, 8192, <<57, 80, 50, 48, 48, 48>> >>]
      /\ kwire = << >>
      /\ kwire' # << >>)
       => kwire' = <<19, 0, 0, 0, 100, 255, 255, 0, 32, 0, 0, 6, 0,
                     57, 80, 50, 48, 48, 48>>]_vars

\* C24 witness: Encode has written that VersionRequest, and the 19 bytes are
\* on the transport with 19 in the size field and 100 as the type byte.
C24_Witness ==
  /\ kmsg.variant = "VersionRequest"
  /\ kmsg.f = <<65535, 8192, <<57, 80, 50, 48, 48, 48>> >>
  /\ Len(kwire) = 19
  /\ HdrSize(kwire) = 19
  /\ kwire[HeaderSize] = 100
  /\ kres = NoDecoded

\* C27: MessageTypeToMessage and MessageToMessageType are inverse to each
\* other: for the type byte mt of every frame Client.Start decodes that is a
\* message type, MessageToMessageType(MessageTypeToMessage(mt)) = mt, and the
\* message made for an Rremove is a RemoveResponse.
C27_InverseMappings ==
  (kres.by = "Client.Start" /\ kwire[HeaderSize] \in RequestTypes \cup ResponseTypes) =>
    /\ MessageToMessageType(MessageTypeToMessage(kwire[HeaderSize])) = kwire[HeaderSize]
    /\ kwire[HeaderSize] = Rremove =>
         MessageTypeToMessage(kwire[HeaderSize]) = "RemoveResponse"

(***************************************************************************)
(* Claims about the client's reader.                                       *)
(***************************************************************************)
\* C29: when Client.Start reads a well-formed response whose tag is not in
\* the pending table, the message is dropped: the table, every channel and
\* every caller stay as they were, and Start goes on to the next frame
\* instead of returning.
C29_UnknownTagDropped ==
  [][(ReadStep /\ WellFormed(Head(s2c)) /\ queue[Head(s2c).tag] = NoSlot) =>
       /\ queue' = queue
       /\ ch' = ch
       /\ pc' = pc
       /\ result' = result
       /\ reader' = "running"
       /\ s2c' = Tail(s2c)]_vars

\* C30: when Client.Start hits a transport error, a bad header, an unknown
\* message type or a body that fails to decode, it stops reading and returns
\* that error, and the transport is closed when it has returned; from then
\* on Start stays returned with that error, the transport stays closed and
\* no response is delivered to any channel.
C30_StopOnError ==
  [][/\ (StopStep /\ s2c = << >>) =>
          /\ transport # "open"
          /\ startErr' = EOF
          /\ transport' = "closed"
          /\ ch' = ch
     /\ (ReadStep /\ Head(s2c).mt \notin RequestTypes \cup ResponseTypes) =>
          /\ reader' = "stopped"
          /\ startErr' = ErrUnknownMessageType
          /\ transport' = "closed"
          /\ ch' = ch
     /\ (ReadStep /\ Head(s2c).mt \in ResponseTypes /\ ~WellFormed(Head(s2c))) =>
          /\ reader' = "stopped"
          /\ startErr' = EOF
          /\ transport' = "closed"
          /\ ch' = ch
     /\ reader = "stopped" =>
          /\ reader' = "stopped"
          /\ startErr' = startErr
          /\ transport' = "closed"
          /\ s2c' = << >>
          /\ \A c \in Callers : ch'[c] \in {ch[c], << >>, << Nil >>}]_vars

\* C30 witness: Start has returned ErrUnknownMessageType and the transport
\* is closed, while a request is in the pending table with its caller
\* waiting on an empty channel.
C30_Witness ==
  /\ reader = "stopped"
  /\ startErr = ErrUnknownMessageType
  /\ transport = "closed"
  /\ \E c \in Callers :
       /\ pc[c] = "wait"
       /\ queue[req[c].tag] = c
       /\ ch[c] = << >>

\* C26: the pending table holds at most one slot per tag and each slot
\* under at most one tag; a slot enters the table only by its caller's
\* getTag, under a free tag and with an empty channel; a slot receives a
\* value (a response or the flushed marker) only while it is in the table
\* and its channel is empty, and leaves the table in that same step, so that
\* it never receives a second value and is never removed twice; and no
\* caller returns from an operation with its slot still in the table.
C26_OneValuePerSlot ==
  [][/\ \A c \in Callers :
          /\ Cardinality({t \in Tags : queue[t] = c}) <= 1
          /\ Len(ch[c]) <= 1
          /\ pc[c] \in {"idle", "done"} => \A t \in Tags : queue[t] # c
     /\ \A c \in Callers : \A t \in Tags :
          (queue[t] # c /\ queue'[t] = c) =>
            /\ CallStep(c)
            /\ queue[t] = NoSlot
            /\ ch'[c] = << >>
     /\ \A c \in Callers :
          Len(ch'[c]) > Len(ch[c]) =>
            /\ ch[c] = << >>
            /\ Len(ch'[c]) = 1
            /\ \E t \in Tags : queue[t] = c /\ queue'[t] = NoSlot]_vars

\* C26 witness: a slot removed from the table holds the one response it
\* received, its caller not having taken it yet, while its tag is in the
\* table again with the new, empty slot of another caller.
C26_Witness ==
  \E c, d \in Callers :
    /\ c # d
    /\ pc[c] = "wait"
    /\ Len(ch[c]) = 1
    /\ Head(ch[c]) # Nil
    /\ req[d].tag = req[c].tag
    /\ queue[req[c].tag] = d
    /\ pc[d] = "wait"
    /\ ch[d] = << >>

(***************************************************************************)
(* Claims about the server's requests.                                     *)
(***************************************************************************)
\* C23: a Twalk with 17 names is answered with an Rerror holding the
\* request's tag, not with an Rwalk: every write the server makes for such a
\* request is a write of an ErrorResponse with that tag.
C23_WalkLimit ==
  [][\A i \in Writers :
       (side = "server" /\ WireStep(i) /\ task[i].variant = "WalkResponse"
          /\ task[i].val > MaxWalkNames) =>
         /\ wout[i].d.variant = "ErrorResponse"
         /\ wout[i].d.tag = task[i].tag]_vars

(***************************************************************************)
(* Claims about tags.                                                      *)
(***************************************************************************)
\* C22: on a new client the NextTag calls of one caller return 0, 1, 2, ...,
\* 0xFFFE and then 0 again: the call after n calls returns n mod 65535,
\* never NOTAG, and two calls that return the same tag are at least 65535
\* calls apart, so that any 65535 calls in a row return distinct tags.
C22_NextTagSequence ==
  [][ntags' = ntags + 1 =>
       /\ lastTag' = ntags % 65535
       /\ lastTag' # NOTAG
       /\ \A t \in ProbeTags :
            (lastTag' = t /\ seenAt[t] # 0) => ntags' - seenAt[t] >= 65535]_vars

\* C22 witness: the 65535th call has returned 0xFFFE and the call after it
\* has returned 0, as the first call had.
C22_Witness ==
  /\ ntags = 65536
  /\ lastTag = 0
  /\ nextTag = 1
  /\ seenAt[65534] = 65535
  /\ seenAt[0] = 65536

(***************************************************************************)
(* Claims about the write primitive.                                       *)
(***************************************************************************)
\* C28: write(w, b) drains its buffer on partial writes: with a writer that
\* takes at least one byte per call without error, the writer is given the
\* bytes of b once each and in order (what it has been given is always the
\* front of b), and when write has returned nil it has been given all of b.
C28_DrainsBuffer ==
  /\ wbuf.st \in {"loop", "returned"} =>
       /\ Len(wbuf.out) <= Len(wbuf.b)
       /\ wbuf.out = SubSeq(wbuf.b, 1, Len(wbuf.out))
  /\ wbuf.st = "returned" => wbuf.out = wbuf.b

(***************************************************************************)
(* Claims about the pending table's lock.                                  *)
(***************************************************************************)
\* C25: every function that changes the pending table (getTag's insert,
\* handleResponse's deliver and remove, flush's remove and wake, write's
\* remove on failure) holds queueLock while it is at the table, so that no
\* two of them are at the table at the same time.
C25_TableUnderLock ==
  /\ \A p \in Paths : lpc[p] = "in" => queueLock = p
  /\ Cardinality({p \in Paths : lpc[p] = "in"}) <= 1

\* C31: on a frame whose type is none of the thirteen request types, a
\* response type included, Server.Start returns ErrUnknownMessageType and
\* Serve closes the transport, and no handler task is started for the frame;
\* a handler task is started only for a frame of a request type.
C31_ServerStopsOnNonRequest ==
  [][/\ (side = "server" /\ srvMt' \notin RequestTypes \cup {0}) =>
          /\ server' # "running"
          /\ srvErr' = ErrUnknownMessageType
          /\ wdown'
     /\ (server = "running" /\ server' = "stopped") =>
          /\ task' = task
          /\ wpc' = wpc
     /\ \A i \in Writers :
          (wpc[i] # "handler" /\ wpc'[i] = "handler") => srvMt' \in RequestTypes]_vars

\* C31 witness: after a request was answered with a whole frame, Server.Start
\* has returned ErrUnknownMessageType on an Rerror, the transport is closed,
\* and no handler task exists.
C31_Witness ==
  /\ side = "server"
  /\ server = "stopped"
  /\ srvMt = Rerror
  /\ srvErr = ErrUnknownMessageType
  /\ wdown
  /\ Len(wire) >= 3
  /\ \A i \in Writers : wpc[i] = "idle" /\ task[i] = NoTask

\* C32: when two Flush calls that name the same old tag overlap and the
\* server answers only the last Tflush, every Flush call whose Tflush was
\* written eventually returns (under the fair scheduling of FlushSpec).
C32_OverlappingFlushesReturn ==
  \A c \in 2..NumFlushers :
    (pc[c] = "wait" /\ req[c].variant = "FlushRequest") ~> (pc[c] = "done")

\* C33: however concurrent NextTag calls interleave, no call returns NOTAG.
C33_NeverNOTAG ==
  \A r \in Racers : rpc[r] = "done" => rt[r] # NOTAG

\* C34: however concurrent NextTag calls interleave, two callers never hold
\* the same tag from calls fewer than 65535 calls apart (RaceSpec makes at
\* most MaxRaceCalls calls).
C34_FreshTags ==
  \A a, b \in Racers :
    (a # b /\ rpc[a] = "done" /\ rpc[b] = "done") => rt[a] # rt[b]

\* C35: delivering into a completion slot never blocks: every channel that
\* is registered in the table is empty, so the send of handleResponse (the
\* reader, on any frame it has read) and the send of flush (a Flush that has
\* its Rflush) can always be made, whatever the callers are doing.
C35_SendNeverBlocks ==
  /\ \A t \in Tags : queue[t] # NoSlot => Len(ch[queue[t]]) < ChanCap
  /\ (reader = "running" /\ s2c # << >>) => ENABLED ReadFrame
  /\ \A c \in Callers : pc[c] = "flush" => ENABLED FlushOld(c)

\* The reader has delivered an Rflush to a Flush, whose flush has delivered
\* nil to a caller that has not reached its receive yet, and the reader
\* runs on.
C35_Witness ==
  \E c, d \in Callers :
    /\ pc[d] = "done" /\ req[d].variant = "FlushRequest"
    /\ result[d].err = "nil"
    /\ pc[c] = "write" /\ ch[c] = << Nil >> /\ queue[req[c].tag] = NoSlot
    /\ reader = "running" /\ transport = "open"

\* C36: once the handler of a dispatched request has returned anything but
\* ErrFlushed and the task has left Server.handleResponse with the transport
\* working, one whole reply frame carrying the request's tag has been written
\* for it, whatever (response, error) the handler returned.
C36_OneReplyPerReturn ==
  \A i \in Writers :
    (/\ side = "server"
     /\ wpc[i] = "done"
     /\ task[i].err \in {"nil", ErrHandler}
     /\ ~wdown) =>
       /\ wout[i].kind = "msg"
       /\ wout[i].d.tag = task[i].tag
       /\ wpos[i] = Len(EncodeWrites(wout[i].d))

\* The whole frames written downstream in reply to the request with tag t.
RepliesTo(t) ==
  {k \in 1..Len(wire) : wire[k].part = "type" /\ wire[k].rtag = t}

\* The Flush of task i got its Rflush from upstream, and the task has
\* written its reply and ended.
FlushRelayed(i) ==
  /\ task[i].variant = "FlushResponse"
  /\ task[i].err = "nil"
  /\ task[i].res.variant = "FlushResponse"
  /\ wpc[i] = "done"

\* The send of task d was ended by a flush: nil is in its channel or has
\* been received from it.
WokenByFlush(d) ==
  /\ task[d].variant = "ReadResponse"
  /\ \/ ch[d] = << Nil >>
     \/ result[d].err = ErrFlushed

\* C37 as stated: in the proxy, when a Tflush naming T arrived while T was
\* blocked upstream and upstream answered it with Rflush, one Rflush frame
\* with the Tflush's tag is written downstream and no frame at all for T.
C37_FlushThroughProxy_Original ==
  \A i \in Writers :
    FlushRelayed(i) =>
      /\ Cardinality(RepliesTo(task[i].tag)) = 1
      /\ RepliesTo(task[i].oldtag) = {}

\* C37, amended: the same when upstream has not answered T before its
\* Rflush takes effect, that is, when T's send is ended by the flush.  Then
\* the one frame for the Tflush is an Rflush with its tag, nothing is ever
\* written for T, and the task serving T is never held up: it receives nil,
\* returns ErrFlushed to Server.handleResponse and ends without a write.
C37_FlushThroughProxy ==
  /\ \A i \in Writers :
       FlushRelayed(i) =>
         /\ Cardinality(RepliesTo(task[i].tag)) = 1
         /\ wout[i] = Out("msg", Msg("FlushResponse", task[i].tag, 0))
         /\ wpos[i] = Len(EncodeWrites(wout[i].d))
  /\ \A d \in Writers :
       WokenByFlush(d) =>
         /\ RepliesTo(task[d].tag) = {}
         /\ wout[d] = NoOut
         /\ wpc[d] \in {"handler", "done"}
         /\ pc[d] = "wait" => ENABLED Recv(d)
         /\ (pc[d] = "done" /\ wpc[d] = "handler") => ENABLED PxHandle(d)
         /\ wpc[d] = "done" => task[d].err = ErrFlushed

\* The Tflush was relayed and answered, T was woken by the flush and its
\* task has ended; the only frame written downstream is the Rflush.
C37_Witness ==
  \E i, d \in Writers :
    /\ FlushRelayed(i)
    /\ task[i].tag = 1 /\ task[i].oldtag = 0
    /\ WokenByFlush(d) /\ task[d].tag = 0 /\ wpc[d] = "done"
    /\ Len(wire) = 3 /\ wire[2].v = Rflush /\ wire[3].v = 1

\* C38: for every string s, the 16-bit prefix WriteString writes is the
\* number of string bytes it writes after it, and ReadString on the output
\* returns s and consumes exactly the bytes written.
C38_StringRoundTrip ==
  kmsg.variant = "string" =>
    /\ kwire # << >> => UnLE(SubSeq(kwire, 1, 2)) = Len(kwire) - 2
    /\ kres # NoDecoded =>
         /\ kres.err = "nil"
         /\ kres.msg.f[1] = Str(kmsg.f[1])
         /\ kres.used = Len(kwire)

=============================================================================
